---------------------------- MODULE Spec2Model ----------------------------
(***************************************************************************)
(* A model of the realtime dispatch engine of sockudo: the channel index   *)
(* and the channel manager (subscribe / unsubscribe / batch_unsubscribe),  *)
(* the signature of a subscription, the local and horizontal fan-out, and  *)
(* the activity and authentication timeouts of a connection.               *)
(*                                                                         *)
(* The module holds several specifications over one set of variables; a    *)
(* specification leaves the variables of the other parts at their initial  *)
(* values:                                                                 *)
(*   Spec        the channel index of a two-node cluster                   *)
(*   SpecSend    send / on_broadcast over the transport                    *)
(*   SpecSign    get_data_to_sign_for_signature / signature_is_valid       *)
(*   SpecTimeout the activity-timeout and auth-timeout tasks of a socket   *)
(*   SpecRequest send_request and the responses of the peers               *)
(*   SpecFan     a send in batches, locally and to the cluster             *)
(*   SpecUser    the users' sockets and a send to a channel                *)
(*   SpecAck     a subscriber's acknowledgement and a published event      *)
(*   SpecConfig  WorkerThreadsConfig: deserialize, serialize, resolve      *)
(*   SpecProtocol the constructors of PusherMessage                        *)
(*   SpecTask    overlapping set_activity_timeout calls                    *)
(*   SpecLeave   unsubscribe from a presence channel                       *)
(*   SpecLimiter the Redis rate limiter                                    *)
(*   SpecQueue   the Redis queue manager                                   *)
(*   SpecApi     the Pusher API auth middleware                            *)
(***************************************************************************)
EXTENDS Integers, Sequences, FiniteSets, TLC

VARIABLES
    namespace,      \* node -> the Namespace of the app on that node
    announced,      \* <<channel, user_id>> for which member_added was last emitted
    degraded,       \* some count query of a handler missed a peer's answer
    faults,         \* the handlers so far that the cluster did not answer fully
    last,           \* what the last handler did (observation only)
    signIn,         \* the arguments of the signature check under way
    signOut,        \* "unset", or the answer of signature_is_valid for signIn
    published,      \* the sends so far: node, channel, except, whether published
    wire,           \* the broadcasts the transport has yet to hand to a node
    sent,           \* socket -> message -> the times the message was sent to it
    now,            \* the clock, in seconds since the connection was set up
    conn,           \* the connection: in the manager, closed, status, last frame, user
    activity,       \* the activity-timeout task: where it is, when it wakes
    auth,           \* the auth-timeout task: where it is, when it wakes
    pings,          \* the pings sent: when, how long idle, the status then set
    answered,       \* the times of the pings a client frame answered
    closes,         \* the closes: code, when, the ping (or -1)
    gone,           \* when the connection left the manager (or -1)
    authRan,        \* what the auth-timeout task found when it expired
    clock,          \* the clock of a cluster query, in units of time
    pending,        \* the query under way on node 1: where it is, its timer
    slot,           \* pending_requests[request_id]: None, or the responses
    inflight,       \* the peers that got the request and have yet to answer
    returned,       \* None, or what the query returned, and when
    fan,            \* the send under way: where it is, its targets, its results
    batches,        \* the batch tasks of the send: targets, state, results
    namespaces,     \* LocalAdapter.namespaces: key -> user and channel index
    signed_in,      \* per socket: the user it is signed in as, or ""
    last_send,      \* the last LocalAdapter::send: its arguments, its targets
    deliv,          \* a channel of one node: its sockets, the frames queued
    probe,          \* the input a function is tried on, and what it gave
    timers,         \* set_activity_timeout calls: the handle stored, the tasks spawned
    leave,          \* an unsubscribe from a presence channel: member read, socket removed
    limiter,        \* the Redis sorted set of one rate-limit key, its expiry and the clock
    queue,          \* the Redis list of one queue, its workers and what they were handed
    api             \* the last HTTP API request through the auth middleware and what came of it

idxVars == <<namespace, announced, degraded, faults, last>>
signVars == <<signIn, signOut>>
sendVars == <<published, wire, sent>>
timeVars == <<now, conn, activity, auth, pings, answered, closes, gone, authRan>>
reqVars == <<clock, pending, slot, inflight, returned>>
fanVars == <<fan, batches>>
userVars == <<namespaces, signed_in, last_send>>
ackVars == <<deliv>>
probeVars == <<probe>>
taskVars == <<timers>>
leaveVars == <<leave>>
limiterVars == <<limiter>>
queueVars == <<queue>>
apiVars == <<api>>

\* A step of one part leaves the variables of the other parts alone.
IdxOnly == UNCHANGED <<signVars, sendVars, timeVars, reqVars, fanVars, userVars, ackVars, probeVars, taskVars, leaveVars, limiterVars, queueVars, apiVars>>
SignOnly == UNCHANGED <<idxVars, sendVars, timeVars, reqVars, fanVars, userVars, ackVars, probeVars, taskVars, leaveVars, limiterVars, queueVars, apiVars>>
SendOnly == UNCHANGED <<idxVars, signVars, timeVars, reqVars, fanVars, userVars, ackVars, probeVars, taskVars, leaveVars, limiterVars, queueVars, apiVars>>
TimeOnly == UNCHANGED <<idxVars, signVars, sendVars, reqVars, fanVars, userVars, ackVars, probeVars, taskVars, leaveVars, limiterVars, queueVars, apiVars>>
ReqOnly == UNCHANGED <<idxVars, signVars, sendVars, timeVars, fanVars, userVars, ackVars, probeVars, taskVars, leaveVars, limiterVars, queueVars, apiVars>>
FanOnly == UNCHANGED <<idxVars, signVars, sendVars, timeVars, reqVars, userVars, ackVars, probeVars, taskVars, leaveVars, limiterVars, queueVars, apiVars>>
UserOnly == UNCHANGED <<idxVars, signVars, sendVars, timeVars, reqVars, fanVars, ackVars, probeVars, taskVars, leaveVars, limiterVars, queueVars, apiVars>>
AckOnly == UNCHANGED <<idxVars, signVars, sendVars, timeVars, reqVars, fanVars, userVars, probeVars, taskVars, leaveVars, limiterVars, queueVars, apiVars>>
ProbeOnly == UNCHANGED <<idxVars, signVars, sendVars, timeVars, reqVars, fanVars, userVars, ackVars, taskVars, leaveVars, limiterVars, queueVars, apiVars>>
TaskOnly == UNCHANGED <<idxVars, signVars, sendVars, timeVars, reqVars, fanVars, userVars, ackVars, probeVars, leaveVars, limiterVars, queueVars, apiVars>>
LeaveOnly == UNCHANGED <<idxVars, signVars, sendVars, timeVars, reqVars, fanVars, userVars, ackVars, probeVars, taskVars, limiterVars, queueVars, apiVars>>
LimiterOnly == UNCHANGED <<idxVars, signVars, sendVars, timeVars, reqVars, fanVars, userVars, ackVars, probeVars, taskVars, leaveVars, queueVars, apiVars>>
QueueOnly == UNCHANGED <<idxVars, signVars, sendVars, timeVars, reqVars, fanVars, userVars, ackVars, probeVars, taskVars, leaveVars, limiterVars, apiVars>>
ApiOnly == UNCHANGED <<idxVars, signVars, sendVars, timeVars, reqVars, fanVars, userVars, ackVars, probeVars, taskVars, leaveVars, limiterVars, queueVars>>

(***************************************************************************)
(* Bounds and names.                                                       *)
(***************************************************************************)
NumSockets == 3
MaxFaults == 1
MaxMessages == 2
MaxTime == 14

Nodes == {1, 2}
Sockets == 1..NumSockets
Users == {"u1", "u2"}
Channels == {"chat", "presence-room"}

\* The node a socket is connected to: odd ids on node 1, even ids on node 2.
NodeOf(s) == IF s % 2 = 1 THEN 1 ELSE 2
SocketsOf(n) == {s \in Sockets : NodeOf(s) = n}
\* The users a socket may present itself as in a presence channel: the first
\* two sockets (one on each node) are of the same user, the others of any.
UsersOf(s) == IF s <= 2 THEN {"u1"} ELSE Users
Peers(n) == Nodes \ {n}

\* Option<T>: None is the empty tuple, Some(v) the tuple of v.
None == <<>>
Some(v) == <<v>>
IsSome(o) == o # <<>>
Unwrap(o) == o[1]

StartsWith(s, p) == Len(s) >= Len(p) /\ SubSeq(s, 1, Len(p)) = p

\* SocketId::to_string
SocketIdStr(s) == "sock" \o ToString(s)

(***************************************************************************)
(* ChannelType::from_name and requires_authentication.                     *)
(***************************************************************************)
ChannelTypeFromName(name) ==
    IF StartsWith(name, "presence-") THEN "Presence"
    ELSE IF StartsWith(name, "private-encrypted-") THEN "PrivateEncrypted"
    ELSE IF StartsWith(name, "private-") THEN "Private"
    ELSE "Public"

get_channel_type(channel_name) == ChannelTypeFromName(channel_name)

requires_authentication(channel_type) ==
    channel_type \in {"Presence", "PrivateEncrypted", "Private"}

(***************************************************************************)
(* Signatures (channel/manager.rs).                                        *)
(*                                                                         *)
(* A sonic_rs / serde_json Value is modelled for the two fields the code   *)
(* reads: a field is absent, null or a string.  A JSON object is the       *)
(* record of its "channel" and "channel_data" fields.                      *)
(***************************************************************************)
JAbsent == [t |-> "absent", s |-> ""]
JNull == [t |-> "null", s |-> ""]
JStr(s) == [t |-> "str", s |-> s]

\* Value::get(..).and_then(|v| v.as_str())
as_str(v) == IF v.t = "str" THEN Some(v.s) ELSE None
unwrap_or(o, d) == IF IsSome(o) THEN Unwrap(o) ELSE d

\* The text of a JSON value and of an object (serde_json::to_string).
JsonFieldText(name, v) ==
    IF v.t = "absent" THEN ""
    ELSE IF v.t = "null" THEN "'" \o name \o "':null,"
    ELSE "'" \o name \o "':'" \o v.s \o "',"
to_string(obj) ==
    "{" \o JsonFieldText("channel", obj.channel)
        \o JsonFieldText("channel_data", obj.channel_data) \o "}"

SignSocketIds == {SocketIdStr(1), SocketIdStr(2)}
SignChannels ==
    {"", "chat", "presence", "presence-", "presence-room", "private-x",
     "presence-room:cd1"}
SignChannelData == {"", "cd1", "{user_id:u1}"}
JsonFieldValues(S) == {JAbsent, JNull} \cup {JStr(s) : s \in S}
JsonObjects ==
    [channel : JsonFieldValues(SignChannels),
     channel_data : JsonFieldValues(SignChannelData)]

\* sonic_rs::from_str(&data).unwrap_or_default(): the object a text encodes,
\* and the default Value (null, which has no field) for any other text.
from_str_or_default(text) ==
    IF \E o \in JsonObjects : to_string(o) = text
    THEN CHOOSE o \in JsonObjects : to_string(o) = text
    ELSE [channel |-> JAbsent, channel_data |-> JAbsent]

\* The three forms of MessageData.
Structured(channel, channel_data) ==
    [kind |-> "Structured", channel |-> channel, channel_data |-> channel_data]
Json(obj) == [kind |-> "Json", value |-> obj]
String(text) == [kind |-> "String", text |-> text]

\* Token::sign: the hex HMAC-SHA256 of the data under the secret, kept symbolic.
TokenSign(secret, data) == "hmac(" \o secret \o "|" \o data \o ")"
\* token::secure_compare
secure_compare(a, b) == a = b

DataWithChannelData(socket_id_str, channel, channel_data) ==
    socket_id_str \o ":" \o channel \o ":" \o channel_data
DataWithoutChannelData(socket_id_str, channel) ==
    socket_id_str \o ":" \o channel

SignBranch(socket_id_str, channel, channel_data) ==
    LET is_presence == StartsWith(channel, "presence-")
    IN  IF is_presence /\ channel_data # ""
        THEN DataWithChannelData(socket_id_str, channel, channel_data)
        ELSE DataWithoutChannelData(socket_id_str, channel)

\* A slip of the Json arm: channel_data appended whenever it is non-empty.
Mut_sign_json_value(socket_id_str, data) ==
    LET channel == unwrap_or(as_str(data.channel), "")
        channel_data == unwrap_or(as_str(data.channel_data), "")
    IN  IF channel_data # ""
        THEN DataWithChannelData(socket_id_str, channel, channel_data)
        ELSE DataWithoutChannelData(socket_id_str, channel)

\* The MessageData::Json arm (and the String arm after parsing).
sign_json_value(socket_id_str, data) ==
    LET channel == unwrap_or(as_str(data.channel), "")
        channel_data == unwrap_or(as_str(data.channel_data), "")
    IN  SignBranch(socket_id_str, channel, channel_data)

get_data_to_sign_for_signature(socket_id_str, message_data) ==
    CASE message_data.kind = "Structured" ->
            \* channel.unwrap(); channel_data.unwrap_or_default()
            SignBranch(socket_id_str, Unwrap(message_data.channel),
                       unwrap_or(message_data.channel_data, ""))
      [] message_data.kind = "Json" ->
            sign_json_value(socket_id_str, message_data.value)
      [] message_data.kind = "String" ->
            sign_json_value(socket_id_str, from_str_or_default(message_data.text))

get_expected_signature(app_config, socket_id_str, message_data) ==
    app_config.key \o ":" \o
        TokenSign(app_config.secret,
                  get_data_to_sign_for_signature(socket_id_str, message_data))

signature_is_valid(app_config, socket_id_str, signature, message_data) ==
    secure_compare(signature,
                   get_expected_signature(app_config, socket_id_str, message_data))

AppConfig == [key |-> "key", secret |-> "secret"]

(***************************************************************************)
(* The Namespace index of one node (namespace.rs): sockets, channels ->    *)
(* sockets, sockets -> channels, users -> sockets and, per presence        *)
(* channel, the member of each subscribed socket (<<channel, socket,       *)
(* user_id>>).  channels is a map whose domain is the set of the channel   *)
(* entries that exist.                                                     *)
(***************************************************************************)
EmptyNamespace ==
    [sockets |-> {},
     channels |-> [c \in {} |-> {}],
     socket_channels |-> [s \in Sockets |-> {}],
     presence_members |-> {},
     users |-> [u \in Users |-> {}]]

\* Namespace::get_channel_sockets
ChannelSockets(ns, channel) ==
    IF channel \in DOMAIN ns.channels THEN ns.channels[channel] ELSE {}

\* Namespace::add_channel_to_socket: idempotent, true iff newly added.
add_channel_to_socket(ns, channel, socket_id) ==
    LET cur == ChannelSockets(ns, channel)
    IN  [ns |-> [ns EXCEPT
                   !.channels = [c \in DOMAIN ns.channels \cup {channel} |->
                                    IF c = channel THEN cur \cup {socket_id}
                                    ELSE ns.channels[c]],
                   !.socket_channels[socket_id] = @ \cup {channel}],
         ret |-> socket_id \notin cur]

\* Namespace::remove_channel_from_socket: idempotent, true iff removed; the
\* entry of a channel left empty stays for the caller to remove.
remove_channel_from_socket(ns, channel, socket_id) ==
    [ns |-> [ns EXCEPT
               !.channels = [c \in DOMAIN ns.channels |->
                                IF c = channel THEN ns.channels[c] \ {socket_id}
                                ELSE ns.channels[c]],
               !.socket_channels[socket_id] = @ \ {channel}],
     ret |-> socket_id \in ChannelSockets(ns, channel)]

\* Namespace::remove_channel: erases the channel entry.
namespace_remove_channel(ns, channel) ==
    [ns EXCEPT !.channels = [c \in DOMAIN ns.channels \ {channel} |-> ns.channels[c]]]

\* Namespace::get_channel_members: the user ids of the channel's members.
namespace_get_channel_members(ns, channel) ==
    {m[3] : m \in {x \in ns.presence_members : x[1] = channel}}

\* ConnectionManager::count_user_connections_in_channel of the local adapter.
local_count_user_connections_in_channel(ns, user_id, channel, excluding_socket) ==
    Cardinality({m \in ns.presence_members :
                    /\ m[1] = channel
                    /\ m[3] = user_id
                    /\ excluding_socket # Some(m[2])})

(***************************************************************************)
(* The answer of the cluster to a request (send_request): the peers in R   *)
(* answer before the timeout, or the transport fails (fail).               *)
(***************************************************************************)
NetInputs(n) ==
    {[fail |-> TRUE, R |-> {}]} \cup {[fail |-> FALSE, R |-> r] : r \in SUBSET Peers(n)}
Complete(n, net) == ~net.fail /\ net.R = Peers(n)
\* The answers a handler may get: at most MaxFaults handlers miss one.
Answers(n, done) == {net \in NetInputs(n) : Complete(n, net) \/ done < MaxFaults}
Faults(n, done, net) == IF Complete(n, net) THEN done ELSE done + 1

(***************************************************************************)
(* LocalAdapter and HorizontalAdapterBase as ConnectionManager.  nss is    *)
(* the namespace of every node, n the node that runs the operation.        *)
(***************************************************************************)
\* A slip: add_to_channel answers true whatever the namespace answers.
Mut_local_add_to_channel(ns, channel, socket_id) ==
    [add_channel_to_socket(ns, channel, socket_id) EXCEPT !.ret = TRUE]

\* LocalAdapter::add_to_channel
local_add_to_channel(ns, channel, socket_id) ==
    add_channel_to_socket(ns, channel, socket_id)

\* LocalAdapter::remove_from_channel
local_remove_from_channel(ns, channel, socket_id) ==
    remove_channel_from_socket(ns, channel, socket_id)

\* HorizontalAdapterBase::add_to_channel
add_to_channel(nss, n, channel, socket_id) ==
    LET r == local_add_to_channel(nss[n], channel, socket_id)
    IN  [nss |-> [nss EXCEPT ![n] = r.ns], ret |-> r.ret]

\* HorizontalAdapterBase::remove_from_channel
remove_from_channel(nss, n, channel, socket_id) ==
    LET r == local_remove_from_channel(nss[n], channel, socket_id)
    IN  [nss |-> [nss EXCEPT ![n] = r.ns], ret |-> r.ret]

\* HorizontalAdapterBase::remove_channel
remove_channel(nss, n, channel) ==
    [nss EXCEPT ![n] = namespace_remove_channel(nss[n], channel)]

\* HorizontalAdapterBase::get_channel_sockets: the local sockets and the
\* socket ids of the response; an error of send_request is returned.
get_channel_sockets(nss, n, channel, net) ==
    IF net.fail
    THEN [err |-> TRUE, ret |-> {}]
    ELSE [err |-> FALSE,
          ret |-> ChannelSockets(nss[n], channel)
                    \cup UNION {ChannelSockets(nss[p], channel) : p \in net.R}]

\* HorizontalAdapterBase::get_channel_members (the user ids).
get_channel_members(nss, n, channel, net) ==
    IF net.fail
    THEN [err |-> TRUE, ret |-> {}]
    ELSE [err |-> FALSE,
          ret |-> namespace_get_channel_members(nss[n], channel)
                    \cup UNION {namespace_get_channel_members(nss[p], channel) :
                                    p \in net.R}]

RECURSIVE SumOver(_, _)
SumOver(S, f) ==
    IF S = {} THEN 0
    ELSE LET x == CHOOSE y \in S : TRUE IN f[x] + SumOver(S \ {x}, f)

\* A slip: the connections of the user on the other nodes are not counted.
Mut_count_user_connections_in_channel(nss, n, user_id, channel, excluding_socket, net) ==
    local_count_user_connections_in_channel(nss[n], user_id, channel, excluding_socket)

\* HorizontalAdapterBase::count_user_connections_in_channel: the local count
\* (with the excluded socket) plus the counts of the peers that answered; the
\* local count alone when send_request fails.
count_user_connections_in_channel(nss, n, user_id, channel, excluding_socket, net) ==
    LET local_count ==
            local_count_user_connections_in_channel(nss[n], user_id, channel,
                                                    excluding_socket)
        remote == [p \in Nodes |->
                      local_count_user_connections_in_channel(nss[p], user_id,
                                                              channel, None)]
    IN  IF net.fail THEN local_count
        ELSE local_count + SumOver(net.R, remote)

(***************************************************************************)
(* Presence payloads.  The text of channel_data is one of: a text that is  *)
(* no JSON, an object without user_id, the object of a user.               *)
(***************************************************************************)
UserText(u) == "{user_id:" \o u \o "}"

\* sonic_rs::from_str on a channel_data text: ok, and the user_id field.
from_str(text) ==
    IF \E u \in Users : text = UserText(u)
    THEN [ok |-> TRUE, user_id |-> JStr(CHOOSE u \in Users : text = UserText(u)),
          channel_data |-> JAbsent]
    ELSE IF text = "{}"
    THEN [ok |-> TRUE, user_id |-> JAbsent, channel_data |-> JAbsent]
    ELSE [ok |-> FALSE, user_id |-> JAbsent, channel_data |-> JAbsent]

\* A result: err is None or Some(error kind); ret is the value.
Ok(v) == [err |-> None, ret |-> v]
Err(e) == [err |-> Some(e), ret |-> None]

\* ChannelManager::extract_presence_member; data has the fields user_id and
\* channel_data of the parsed object.
extract_presence_member(data) ==
    IF IsSome(as_str(data.channel_data))
    THEN LET user_data == from_str(Unwrap(as_str(data.channel_data)))
         IN  IF ~user_data.ok THEN Err("Channel")
             ELSE IF IsSome(as_str(user_data.user_id))
             THEN Ok(Unwrap(as_str(user_data.user_id)))
             ELSE Err("Channel")
    ELSE IF IsSome(as_str(data.user_id))
    THEN Ok(Unwrap(as_str(data.user_id)))
    ELSE Err("Channel")

\* ChannelManager::parse_presence_data; data is Option<MessageData>.
parse_presence_data(data) ==
    IF ~IsSome(data) THEN Err("Channel")
    ELSE LET d == Unwrap(data)
         IN  CASE d.kind = "Structured" ->
                    IF ~IsSome(d.channel_data) THEN Err("Channel")
                    ELSE LET parsed == from_str(Unwrap(d.channel_data))
                         IN  IF ~parsed.ok THEN Err("Channel")
                             ELSE extract_presence_member(parsed)
               [] d.kind = "Json" -> extract_presence_member(d.value)
               [] OTHER -> Err("Channel")

(***************************************************************************)
(* ChannelManager::subscribe.  Returns the namespaces after the call, the  *)
(* error (None when Ok) and the JoinResponse.                              *)
(***************************************************************************)
NoJoin == [channel_connections |-> 0, member |-> None]

\* A slip: the socket is added to the channel before the checks.
Mut_subscribe(nss, n, socket_id, data, channel_name, is_authenticated, net) ==
    LET channel_type == get_channel_type(channel_name)
        parsed == IF channel_type = "Presence" THEN parse_presence_data(data)
                  ELSE Ok(None)
        added == add_to_channel(nss, n, channel_name, socket_id)
        total == get_channel_sockets(added.nss, n, channel_name, net)
    IN  IF requires_authentication(channel_type) /\ ~is_authenticated
        THEN [nss |-> added.nss, err |-> Some("Auth"), response |-> NoJoin]
        ELSE IF IsSome(parsed.err)
        THEN [nss |-> added.nss, err |-> parsed.err, response |-> NoJoin]
        ELSE IF total.err
        THEN [nss |-> added.nss, err |-> Some("Transport"), response |-> NoJoin]
        ELSE [nss |-> added.nss, err |-> None,
              response |-> [channel_connections |-> Cardinality(total.ret),
                            member |-> IF added.ret /\ channel_type = "Presence"
                                       THEN Some(parsed.ret) ELSE None]]

subscribe(nss, n, socket_id, data, channel_name, is_authenticated, net) ==
    LET channel_type == get_channel_type(channel_name)
        parsed == IF channel_type = "Presence" THEN parse_presence_data(data)
                  ELSE Ok(None)
        added == add_to_channel(nss, n, channel_name, socket_id)
        total == get_channel_sockets(added.nss, n, channel_name, net)
    IN  IF requires_authentication(channel_type) /\ ~is_authenticated
        THEN [nss |-> nss, err |-> Some("Auth"), response |-> NoJoin]
        ELSE IF IsSome(parsed.err)
        THEN [nss |-> nss, err |-> parsed.err, response |-> NoJoin]
        ELSE IF total.err
        THEN \* get_channel_sockets(..).await? after add_to_channel
             [nss |-> added.nss, err |-> Some("Transport"), response |-> NoJoin]
        ELSE [nss |-> added.nss, err |-> None,
              response |-> [channel_connections |-> Cardinality(total.ret),
                            member |-> IF added.ret /\ channel_type = "Presence"
                                       THEN Some(parsed.ret) ELSE None]]

(***************************************************************************)
(* ChannelManager::unsubscribe.  The member is read first (its own lock    *)
(* scope), then the socket is removed and an empty channel cleaned up.     *)
(***************************************************************************)
NoLeave == [left |-> FALSE, remaining_connections |-> 0, member |-> None]

\* A slip: the channel entry is removed whatever the remaining count.
Mut_unsubscribe(nss, n, socket_id, channel_name, user_id, net) ==
    LET removed == remove_from_channel(nss, n, channel_name, socket_id)
        remaining == get_channel_sockets(removed.nss, n, channel_name, net)
    IN  IF remaining.err
        THEN [nss |-> removed.nss, err |-> Some("Transport"), response |-> NoLeave]
        ELSE [nss |-> remove_channel(removed.nss, n, channel_name),
              err |-> None,
              response |-> [left |-> removed.ret,
                            remaining_connections |-> Cardinality(remaining.ret),
                            member |-> None]]

unsubscribe(nss, n, socket_id, channel_name, user_id, net) ==
    LET channel_type == get_channel_type(channel_name)
        read_members == channel_type = "Presence" /\ IsSome(user_id)
        members == get_channel_members(nss, n, channel_name, net)
        member == IF read_members /\ ~members.err /\ Unwrap(user_id) \in members.ret
                  THEN user_id ELSE None
        removed == remove_from_channel(nss, n, channel_name, socket_id)
        remaining == get_channel_sockets(removed.nss, n, channel_name, net)
    IN  IF read_members /\ members.err
        THEN [nss |-> nss, err |-> Some("Transport"), response |-> NoLeave]
        ELSE IF remaining.err
        THEN [nss |-> removed.nss, err |-> Some("Transport"), response |-> NoLeave]
        ELSE [nss |-> IF Cardinality(remaining.ret) = 0
                      THEN remove_channel(removed.nss, n, channel_name)
                      ELSE removed.nss,
              err |-> None,
              response |-> [left |-> removed.ret,
                            remaining_connections |-> Cardinality(remaining.ret),
                            member |-> member]]

(***************************************************************************)
(* ChannelManager::batch_unsubscribe.  operations is a sequence of         *)
(* <<socket_id, channel_name>>, nets the answer of the cluster to the      *)
(* get_channel_sockets of each operation.  The channels found empty are    *)
(* removed after the loop.                                                 *)
(***************************************************************************)
RECURSIVE batch_loop(_, _, _, _, _, _)
batch_loop(nss, n, operations, nets, results, channels_to_cleanup) ==
    IF operations = <<>>
    THEN [nss |-> nss, results |-> results, channels_to_cleanup |-> channels_to_cleanup]
    ELSE LET op == Head(operations)
             removed == remove_from_channel(nss, n, op[2], op[1])
             sockets == get_channel_sockets(removed.nss, n, op[2], Head(nets))
             remaining == Cardinality(sockets.ret)
         IN  batch_loop(removed.nss, n, Tail(operations), Tail(nets),
                 Append(results,
                        IF sockets.err THEN <<op[2], Err("Transport")>>
                        ELSE <<op[2], Ok(<<removed.ret, remaining>>)>>),
                 IF ~sockets.err /\ remaining = 0
                 THEN Append(channels_to_cleanup, op[2])
                 ELSE channels_to_cleanup)

RECURSIVE cleanup_channels(_, _, _)
cleanup_channels(nss, n, channels_to_cleanup) ==
    IF channels_to_cleanup = <<>> THEN nss
    ELSE cleanup_channels(remove_channel(nss, n, Head(channels_to_cleanup)), n,
                          Tail(channels_to_cleanup))

\* A slip: the channels found empty are left in the index.
Mut_batch_unsubscribe(nss, n, operations, nets) ==
    IF operations = <<>> THEN [nss |-> nss, results |-> <<>>]
    ELSE LET l == batch_loop(nss, n, operations, nets, <<>>, <<>>)
         IN  [nss |-> l.nss, results |-> l.results]

batch_unsubscribe(nss, n, operations, nets) ==
    IF operations = <<>> THEN [nss |-> nss, results |-> <<>>]
    ELSE LET l == batch_loop(nss, n, operations, nets, <<>>, <<>>)
         IN  [nss |-> cleanup_channels(l.nss, n, l.channels_to_cleanup),
              results |-> l.results]

\* The same unsubscribes done one by one, each by ChannelManager::unsubscribe
\* without user: the namespaces after the last, and what each returned.
RECURSIVE one_by_one(_, _, _, _, _)
one_by_one(nss, n, operations, nets, results) ==
    IF operations = <<>> THEN [nss |-> nss, results |-> results]
    ELSE LET op == Head(operations)
             u == unsubscribe(nss, n, op[1], op[2], None, Head(nets))
         IN  one_by_one(u.nss, n, Tail(operations), Tail(nets),
                 Append(results,
                        IF IsSome(u.err) THEN <<op[2], Err(Unwrap(u.err))>>
                        ELSE <<op[2], Ok(<<u.response.left,
                                           u.response.remaining_connections>>)>>))

\* The batches tried on a node: up to MaxBatch operations on the sockets of
\* the node and any channel, the same pair twice included.
MaxBatch == 2
BatchOperations(n) ==
    UNION {[1..k -> SocketsOf(n) \X Channels] : k \in 0..MaxBatch}

(***************************************************************************)
(* ConnectionHandler::verify_channel_authentication.  request has the      *)
(* fields channel, auth (Option) and channel_data (Option).                *)
(***************************************************************************)
verify_channel_authentication(app_config, socket_id, request) ==
    IF ~StartsWith(request.channel, "presence-") /\ ~StartsWith(request.channel, "private-")
    THEN Ok(TRUE)
    ELSE IF ~IsSome(request.auth)
    THEN Err("Auth")
    ELSE LET temp_message ==
                 Json([channel |-> JStr(request.channel),
                       channel_data |-> IF IsSome(request.channel_data)
                                        THEN JStr(Unwrap(request.channel_data))
                                        ELSE JNull])
         IN  Ok(signature_is_valid(app_config, SocketIdStr(socket_id),
                                   Unwrap(request.auth), temp_message))

\* The signature a client's auth endpoint computes for a subscription.
ClientAuth(socket_id, channel, channel_data) ==
    AppConfig.key \o ":" \o
        TokenSign(AppConfig.secret,
                  IF StartsWith(channel, "presence-") /\ IsSome(channel_data)
                     /\ channel_data # Some("")
                  THEN DataWithChannelData(SocketIdStr(socket_id), channel,
                                           Unwrap(channel_data))
                  ELSE DataWithoutChannelData(SocketIdStr(socket_id), channel))

\* The pusher:subscribe frames a client may send on a channel: the data of
\* the message, the request the handler reads from it and its auth.  Every
\* form of the data comes with the signature of the client's auth endpoint;
\* a missing and a wrong signature come with a well-formed data.
SubscribeData(socket_id, channel) ==
    IF get_channel_type(channel) = "Presence"
    THEN {None, Some(String("x")), Some(Structured(Some(channel), None))}
            \cup {Some(Structured(Some(channel), Some(text))) :
                     text \in {"{bad", "{}"} \cup {UserText(u) : u \in UsersOf(socket_id)}}
    ELSE {Some(Structured(Some(channel), None))}
RequestChannelData(data) ==
    IF IsSome(data) /\ Unwrap(data).kind = "Structured"
    THEN Unwrap(data).channel_data ELSE None
SubscribeFrames(socket_id, channel) ==
    IF requires_authentication(get_channel_type(channel))
    THEN {[data |-> d,
           auth |-> Some(ClientAuth(socket_id, channel, RequestChannelData(d)))] :
             d \in SubscribeData(socket_id, channel)}
         \cup {[data |-> Some(Structured(Some(channel), Some(UserText("u1")))),
                auth |-> a] : a \in {None, Some("key:bad")}}
    ELSE {[data |-> d, auth |-> None] : d \in SubscribeData(socket_id, channel)}

(***************************************************************************)
(* The handlers of a connection: each is one step of the node that runs    *)
(* it.                                                                     *)
(***************************************************************************)
\* The sockets of a user in a presence channel, on every node.
UserSocketsInChannel(nss, channel, user_id) ==
    {s \in Sockets : <<channel, s, user_id>> \in nss[NodeOf(s)].presence_members}

NoEvent == [event |-> "none", others |-> 0]
\* The observation of a handler: its result ("ok" or the kind of the error),
\* the membership event it emitted and, for that event, the number of other
\* sockets the user had in the channel on all the nodes.
Observed(op, result, ev) ==
    [op |-> op, result |-> result, event |-> ev.event, others |-> ev.others]

\* The index of a cluster that has just started.
IdxStart ==
    [namespace |-> [n \in Nodes |-> EmptyNamespace],
     announced |-> {},
     degraded |-> FALSE,
     faults |-> 0,
     last |-> Observed("init", "ok", NoEvent)]
IdxAt(v) ==
    /\ namespace = v.namespace
    /\ announced = v.announced
    /\ degraded = v.degraded
    /\ faults = v.faults
    /\ last = v.last

\* A WebSocket upgrade: add_socket.
Connect(s) ==
    /\ s \notin namespace[NodeOf(s)].sockets
    /\ namespace' = [namespace EXCEPT ![NodeOf(s)].sockets = @ \cup {s}]
    /\ last' = Observed("connect", "ok", NoEvent)
    /\ UNCHANGED <<announced, degraded, faults>>
    /\ IdxOnly

\* pusher:subscribe, refused before ChannelManager::subscribe is reached:
\* verify_channel_authentication returned an error.
SubscribeRefused(s, channel, frame) ==
    LET n == NodeOf(s)
        request == [channel |-> channel, auth |-> frame.auth,
                    channel_data |-> RequestChannelData(frame.data)]
        verified == verify_channel_authentication(AppConfig, s, request)
    IN  /\ s \in namespace[n].sockets
        /\ IsSome(verified.err)
        /\ last' = Observed("subscribe", "Auth", NoEvent)
        /\ UNCHANGED <<namespace, announced, degraded, faults>>
        /\ IdxOnly

\* What the handler does with the answer r of ChannelManager::subscribe: for
\* a presence channel the member is stored and member_added emitted when the
\* user has no other connection in the channel.
Joined(nss, r, n, s, channel, net) ==
    LET joined == ~IsSome(r.err) /\ IsSome(r.response.member)
        user_id == Unwrap(r.response.member)
        stored == [r.nss EXCEPT ![n].presence_members = @ \cup {<<channel, s, user_id>>}]
        count == count_user_connections_in_channel(stored, n, user_id, channel,
                                                   Some(s), net)
        others == Cardinality(UserSocketsInChannel(nss, channel, user_id) \ {s})
    IN  IF ~joined
        THEN [nss |-> r.nss, added |-> {}, ev |-> NoEvent, asked |-> FALSE]
        ELSE [nss |-> stored,
              added |-> IF count = 0 THEN {<<channel, user_id>>} ELSE {},
              ev |-> IF count = 0
                     THEN [event |-> "member_added", others |-> others]
                     ELSE NoEvent,
              asked |-> TRUE]

\* pusher:subscribe.
Subscribe(s, channel, frame, net) ==
    LET n == NodeOf(s)
        request == [channel |-> channel, auth |-> frame.auth,
                    channel_data |-> RequestChannelData(frame.data)]
        verified == verify_channel_authentication(AppConfig, s, request)
    IN  /\ s \in namespace[n].sockets
        /\ ~IsSome(verified.err)
        /\ IdxOnly
        /\ \E r \in {subscribe(namespace, n, s, frame.data, channel, verified.ret, net)} :
             \E j \in {Joined(namespace, r, n, s, channel, net)} :
                \* a subscribe refused before its first query asks the cluster nothing
                /\ r.err \in {Some("Auth"), Some("Channel")} => Complete(n, net)
                /\ namespace' = j.nss
                /\ announced' = announced \cup j.added
                /\ degraded' = (degraded \/ (j.asked /\ ~Complete(n, net)))
                /\ faults' = Faults(n, faults, net)
                /\ last' = Observed("subscribe",
                                    IF IsSome(r.err) THEN Unwrap(r.err) ELSE "ok",
                                    j.ev)

\* The member of a socket in a channel, from its presence data.
PresenceOf(ns, channel, s) ==
    LET ms == {m \in ns.presence_members : m[1] = channel /\ m[2] = s}
    IN  IF ms = {} THEN None ELSE Some((CHOOSE m \in ms : TRUE)[3])

\* What a socket that leaves a channel emits: its member is dropped and
\* member_removed is emitted when the user has no connection left.
Leave(nss, n, s, channel, net) ==
    LET user_id == PresenceOf(nss[n], channel, s)
        dropped == [nss EXCEPT ![n].presence_members =
                        {m \in @ : ~(m[1] = channel /\ m[2] = s)}]
        count == count_user_connections_in_channel(dropped, n, Unwrap(user_id),
                                                   channel, None, net)
    IN  IF ~IsSome(user_id)
        THEN [nss |-> nss, removed |-> {}, ev |-> NoEvent, asked |-> FALSE]
        ELSE [nss |-> dropped,
              removed |-> IF count = 0 THEN {<<channel, Unwrap(user_id)>>} ELSE {},
              ev |-> IF count = 0
                     THEN [event |-> "member_removed",
                           others |-> Cardinality(
                               UserSocketsInChannel(dropped, channel, Unwrap(user_id)))]
                     ELSE NoEvent,
              asked |-> TRUE]

\* pusher:unsubscribe.
Unsubscribe(s, channel, net) ==
    LET n == NodeOf(s)
        user_id == PresenceOf(namespace[n], channel, s)
    IN  /\ s \in namespace[n].sockets
        /\ IdxOnly
        /\ \E r \in {unsubscribe(namespace, n, s, channel, user_id, net)} :
             \E l \in {IF IsSome(r.err)
                        THEN [nss |-> r.nss, removed |-> {}, ev |-> NoEvent,
                              asked |-> FALSE]
                        ELSE Leave(r.nss, n, s, channel, net)} :
                /\ namespace' = l.nss
                /\ announced' = announced \ l.removed
                /\ degraded' = (degraded \/ (l.asked /\ ~Complete(n, net)))
                /\ faults' = Faults(n, faults, net)
                /\ last' = Observed("unsubscribe",
                                    IF IsSome(r.err) THEN Unwrap(r.err) ELSE "ok",
                                    l.ev)

RECURSIVE LeaveAll(_, _, _, _, _)
LeaveAll(nss, n, s, chans, net) ==
    IF chans = <<>>
    THEN [nss |-> nss, removed |-> {}, ev |-> NoEvent, asked |-> FALSE]
    ELSE LET l == Leave(nss, n, s, Head(chans), net)
             rest == LeaveAll(l.nss, n, s, Tail(chans), net)
         IN  [nss |-> rest.nss,
              removed |-> l.removed \cup rest.removed,
              ev |-> IF rest.ev.event # "none" THEN rest.ev ELSE l.ev,
              asked |-> l.asked \/ rest.asked]

Orders(S) ==
    {q \in [1..Cardinality(S) -> S] : \A i, j \in DOMAIN q : i # j => q[i] # q[j]}

\* The close of a connection: batch_unsubscribe of the channels of the
\* socket, member_removed for its presence channels, then the socket is
\* removed from the namespace.  The cluster answers every query of the
\* handler alike (net).
Disconnect(s, order, net) ==
    LET n == NodeOf(s)
        operations == [i \in DOMAIN order |-> <<s, order[i]>>]
        nets == [i \in DOMAIN order |-> net]
    IN  /\ s \in namespace[n].sockets
        /\ IdxOnly
        /\ \E b \in {batch_unsubscribe(namespace, n, operations, nets)} :
             \E l \in {LeaveAll(b.nss, n, s, order, net)} :
                \* a socket with no channel asks the cluster nothing
                /\ order = <<>> => Complete(n, net)
                /\ namespace' = [l.nss EXCEPT ![n].sockets = @ \ {s},
                                              ![n].users = [u \in Users |-> @[u] \ {s}]]
                /\ announced' = announced \ l.removed
                /\ degraded' = (degraded \/ (l.asked /\ ~Complete(n, net)))
                /\ faults' = Faults(n, faults, net)
                /\ last' = Observed("disconnect", "ok", l.ev)

IdxNext ==
    \/ \E s \in Sockets : Connect(s)
    \/ \E s \in Sockets, channel \in Channels :
         \E frame \in SubscribeFrames(s, channel) : SubscribeRefused(s, channel, frame)
    \/ \E s \in Sockets, channel \in Channels :
         \E frame \in SubscribeFrames(s, channel), net \in Answers(NodeOf(s), faults) :
            Subscribe(s, channel, frame, net)
    \/ \E s \in Sockets, channel \in Channels :
         \E net \in Answers(NodeOf(s), faults) : Unsubscribe(s, channel, net)
    \/ \E s \in Sockets :
         \E order \in Orders(namespace[NodeOf(s)].socket_channels[s]) :
           \E net \in Answers(NodeOf(s), faults) : Disconnect(s, order, net)

(***************************************************************************)
(* The signature check as a state machine: an input is drawn, then         *)
(* signature_is_valid answers for it.                                      *)
(***************************************************************************)
SignForms == {"Structured", "Json", "String"}
SignOptions(S) == {None} \cup {Some(x) : x \in S}

\* The message data of a form that carries a channel and a channel_data.
SignMessage(form, channel, channel_data) ==
    CASE form = "Structured" -> Structured(Some(channel), channel_data)
      [] form = "Json" ->
            Json([channel |-> JStr(channel),
                  channel_data |-> IF IsSome(channel_data)
                                   THEN JStr(Unwrap(channel_data)) ELSE JAbsent])
      [] form = "String" ->
            String(to_string([channel |-> JStr(channel),
                              channel_data |-> IF IsSome(channel_data)
                                               THEN JStr(Unwrap(channel_data))
                                               ELSE JNull]))

\* The signatures tried: the two candidate strings signed with the secret or
\* with another one, under the key or under another one, and a bare text.
SignCandidates(socket_id_str, channel, channel_data) ==
    LET datas == {DataWithoutChannelData(socket_id_str, channel),
                  DataWithChannelData(socket_id_str, channel,
                                      unwrap_or(channel_data, ""))}
    IN  {k \o ":" \o TokenSign(sec, d) :
            k \in {"key", "other"}, sec \in {"secret", "guess"}, d \in datas}
        \cup {"", "key:"}

SignInputs ==
    {[form |-> f, socket_id |-> sid, channel |-> c, channel_data |-> cd, signature |-> sig] :
        f \in SignForms, sid \in SignSocketIds, c \in SignChannels,
        cd \in SignOptions(SignChannelData), sig \in {""}}

\* No signature check under way.
SignIdle ==
    [form |-> "Structured", socket_id |-> SocketIdStr(1), channel |-> "",
     channel_data |-> None, signature |-> ""]

\* A client presents a signature for the subscription.
SignPresent ==
    /\ signOut = "unset"
    /\ \E sig \in SignCandidates(signIn.socket_id, signIn.channel, signIn.channel_data) :
          /\ signIn' = [signIn EXCEPT !.signature = sig]
          /\ signOut' =
                IF signature_is_valid(AppConfig, signIn.socket_id, sig,
                       SignMessage(signIn.form, signIn.channel, signIn.channel_data))
                THEN "valid" ELSE "invalid"
    /\ SignOnly

SignNext == SignPresent

(***************************************************************************)
(* Fan-out: LocalAdapter::send on one node and HorizontalAdapterBase::send *)
(* over the cluster.  The sockets' subscriptions stay as they are while    *)
(* messages are published.                                                 *)
(***************************************************************************)
UserChannel(u) == "#server-to-user-" \o u
SendChannels == {"chat", UserChannel("u1")}
NodeIdStr(n) == "node" \o ToString(n)

\* str::trim_start_matches("#server-to-user-")
trim_start_matches(channel, prefix) ==
    IF StartsWith(channel, prefix)
    THEN SubSeq(channel, Len(prefix) + 1, Len(channel)) ELSE channel

\* Namespace::get_user_sockets
get_user_sockets(ns, user_id) ==
    IF user_id \in DOMAIN ns.users THEN ns.users[user_id] ELSE {}

\* Namespace::get_channel_socket_refs_except
get_channel_socket_refs_except(ns, channel, except) ==
    {s \in ChannelSockets(ns, channel) : except # Some(SocketIdStr(s))}

\* LocalAdapter::send: the sockets send_raw_message is called for.
local_send(ns, channel, except) ==
    IF StartsWith(channel, "#server-to-user-")
    THEN LET user_id == trim_start_matches(channel, "#server-to-user-")
         IN  {s \in get_user_sockets(ns, user_id) : except # Some(SocketIdStr(s))}
    ELSE get_channel_socket_refs_except(ns, channel, except)

\* serde_json::to_string(&message) and serde_json::from_str.
message_to_string(m) == "event" \o ToString(m)
message_from_str(text) ==
    IF \E m \in 1..MaxMessages : message_to_string(m) = text
    THEN Ok(CHOOSE m \in 1..MaxMessages : message_to_string(m) = text)
    ELSE Err("Json")

\* A slip: the broadcast does not carry the excluded socket.
Mut_BroadcastMessage(node_id, channel, message_json, except) ==
    [node_id |-> node_id, channel |-> channel, message |-> message_json,
     except_socket_id |-> None]

\* The BroadcastMessage of HorizontalAdapterBase::send.
BroadcastMessage(node_id, channel, message_json, except) ==
    [node_id |-> node_id, channel |-> channel, message |-> message_json,
     except_socket_id |-> except]

\* The message m has been sent once more to the sockets of targets.
SentTo(counts, targets, m) ==
    [s \in Sockets |-> IF s \in targets
                       THEN [counts[s] EXCEPT ![m] = @ + 1] ELSE counts[s]]

\* send_batched_messages: (batch_size, max_concurrent_batches).
batching(socket_count) ==
    IF socket_count <= 100
    THEN [batch_size |-> socket_count, max_concurrent_batches |-> 1]
    ELSE IF socket_count <= 1000
    THEN [batch_size |-> 50, max_concurrent_batches |-> 4]
    ELSE [batch_size |-> 100, max_concurrent_batches |-> 8]

\* HorizontalAdapterBase::send on node n: the local fan-out, then the
\* broadcast, which the transport hands once to every node or fails to
\* publish.  With no local target send_batched_messages panics in
\* chunks(0) and nothing is published.
Send(n, channel, except, publish_ok) ==
    LET m == Len(published) + 1
        targets == local_send(namespace[n], channel, except)
        broadcast == BroadcastMessage(NodeIdStr(n), channel, message_to_string(m), except)
        reached == publish_ok /\ batching(Cardinality(targets)).batch_size # 0
    IN  /\ Len(published) < MaxMessages
        /\ sent' = SentTo(sent, targets, m)
        /\ published' = Append(published,
                                [node |-> n, channel |-> channel, except |-> except,
                                 ok |-> reached])
        /\ wire' = IF reached
                    THEN wire \cup {[to |-> p, broadcast |-> broadcast] : p \in Nodes}
                    ELSE wire
        /\ SendOnly

\* A slip: a node replays the broadcast it published itself.
Mut_on_broadcast(counts, n, broadcast) ==
    LET message == message_from_str(broadcast.message)
    IN  IF IsSome(message.err) THEN counts
        ELSE SentTo(counts, local_send(namespace[n], broadcast.channel,
                                       broadcast.except_socket_id),
                    message.ret)

\* start_listeners::on_broadcast on node n: the counts after it.
on_broadcast(counts, n, broadcast) ==
    LET message == message_from_str(broadcast.message)
    IN  IF broadcast.node_id = NodeIdStr(n) THEN counts
        ELSE IF IsSome(message.err) THEN counts
        ELSE SentTo(counts, local_send(namespace[n], broadcast.channel,
                                       broadcast.except_socket_id),
                    message.ret)

\* The transport hands a broadcast to a node.
OnBroadcast(d) ==
    /\ sent' = on_broadcast(sent, d.to, d.broadcast)
    /\ wire' = wire \ {d}
    /\ UNCHANGED published
    /\ SendOnly

SendNext ==
    \/ \E n \in Nodes, channel \in SendChannels, publish_ok \in BOOLEAN :
         \E except \in {None} \cup {Some(SocketIdStr(s)) : s \in Sockets} :
            Send(n, channel, except, publish_ok)
    \/ \E d \in wire : OnBroadcast(d)

\* Nothing published yet.
SendIdle ==
    /\ published = <<>>
    /\ wire = {}
    /\ sent = [s \in Sockets |-> [m \in 1..MaxMessages |-> 0]]

\* The namespaces of connected sockets of which those of subs are subscribed
\* to "chat"; every socket is signed in as the first of its users.
Subscribed(subs) ==
    [n \in Nodes |->
        [EmptyNamespace EXCEPT
            !.sockets = SocketsOf(n),
            !.channels = IF subs \cap SocketsOf(n) = {} THEN [c \in {} |-> {}]
                         ELSE [c \in {"chat"} |-> subs \cap SocketsOf(n)],
            !.socket_channels = [s \in Sockets |->
                                    IF s \in subs \cap SocketsOf(n) THEN {"chat"} ELSE {}],
            !.users = [u \in Users |->
                          {s \in SocketsOf(n) : u = CHOOSE v \in UsersOf(s) : TRUE}]]]

(***************************************************************************)
(* The timeouts of a connection (adapter/handler/timeout_management.rs).   *)
(*                                                                         *)
(* Time is counted in seconds.  A task that sleeps wakes in the second its *)
(* sleep ends: the clock does not pass that second before the task has     *)
(* run.  What happens within one second happens in any order.              *)
(***************************************************************************)
activity_timeout == 5
PONG_TIMEOUT == 3
user_authentication_timeout == 6

\* ConnectionStatus
Active == [s |-> "Active", t |-> 0]
PingSent(t) == [s |-> "PingSent", t |-> t]
Closed == [s |-> "Closed", t |-> 0]

Asleep(wake) == [pc |-> "sleep", wake |-> wake]
PongWait(wake) == [pc |-> "pong_wait", wake |-> wake]
Done == [pc |-> "done", wake |-> 0]
Due(task) == task.pc \in {"sleep", "pong_wait"} /\ task.wake <= now

\* ConnectionState::time_since_last_ping
time_since_last_ping(c) == now - c.last_activity

\* A slip: the task pings when it wakes, whatever the last activity.
Mut_still_active(time_since_activity) == FALSE

\* time_since_activity < Duration::from_secs(activity_timeout)
still_active(time_since_activity) == time_since_activity < activity_timeout

\* A slip: the window is compared in whole seconds, and has never passed
\* when the task wakes.
Mut_elapsed_exceeds(ping_time, timeout) == now - ping_time > timeout

\* ping_time.elapsed() > timeout, read after a sleep of timeout that began
\* after ping_time was read: the Instant read at the wake is later than
\* ping_time by the sleep and by the time it took to start the sleep.
elapsed_exceeds(ping_time, timeout) == now - ping_time >= timeout

\* A slip: the activity is recorded and the status left as it is.
Mut_update_activity(c) == [c EXCEPT !.last_activity = now]

\* WebSocket::update_activity: the frame is the last activity and a PingSent
\* status returns to Active.
update_activity(c) ==
    [c EXCEPT !.last_activity = now,
              !.status = IF @.s = "PingSent" THEN Active ELSE @]

\* A slip: the auth timeout closes whoever it finds.
Mut_is_authenticated(c) == FALSE

\* ConnectionState::is_authenticated
is_authenticated(c) == c.user

\* WebSocket::close: the close frame is sent and the socket is closed; the
\* connection leaves the manager when its cleanup runs.
close(c) == [c EXCEPT !.status = Closed, !.closed = TRUE]

\* setup_initial_timeouts: the activity task and, for an app with user
\* authentication, the auth task.
setup_initial_timeouts(enable_user_authentication) ==
    [activity |-> Asleep(activity_timeout),
     auth |-> IF enable_user_authentication
              THEN Asleep(user_authentication_timeout) ELSE Done]

\* The clock passes to the next second.
Tick ==
    /\ now < MaxTime
    /\ ~Due(activity)
    /\ ~Due(auth)
    /\ now' = now + 1
    /\ UNCHANGED <<conn, activity, auth, pings, answered, closes, gone, authRan>>
    /\ TimeOnly

\* set_activity_timeout, one turn of the loop after a sleep: the task ends
\* when the connection is gone, sleeps the remaining time when the client
\* was active, and pings otherwise; a ping that cannot be written (write_ok
\* is the answer of send_message) cleans the connection up.
ActivityCheck(write_ok) ==
    /\ activity.pc = "sleep"
    /\ Due(activity)
    /\ IF ~conn.open
       THEN /\ activity' = Done
            /\ write_ok
            /\ UNCHANGED <<conn, pings, gone>>
       ELSE IF still_active(time_since_last_ping(conn))
       THEN /\ activity' = Asleep(now + (activity_timeout - time_since_last_ping(conn)))
            /\ write_ok
            /\ UNCHANGED <<conn, pings, gone>>
       ELSE /\ IF write_ok
               THEN /\ conn' = [conn EXCEPT !.status = PingSent(now)]
                    /\ activity' = PongWait(now + PONG_TIMEOUT)
                    /\ gone' = gone
               ELSE \* cleanup_connection
                    /\ conn' = [conn EXCEPT !.status = PingSent(now), !.open = FALSE]
                    /\ activity' = Done
                    /\ gone' = now
            /\ pings' = pings \cup {[at |-> now,
                                     idle |-> time_since_last_ping(conn),
                                     ok |-> write_ok,
                                     status |-> conn'.status]}
    /\ UNCHANGED <<now, auth, answered, closes, authRan>>
    /\ TimeOnly

\* set_activity_timeout after the sleep of PONG_TIMEOUT: a connection still
\* in PingSent is closed with 4201; then the task sleeps activity_timeout.
PongCheck ==
    /\ activity.pc = "pong_wait"
    /\ Due(activity)
    /\ IF conn.open /\ conn.status.s = "PingSent"
          /\ elapsed_exceeds(conn.status.t, PONG_TIMEOUT)
       THEN /\ conn' = close(conn)
            /\ closes' = closes \cup {[code |-> 4201, at |-> now, ping |-> conn.status.t]}
       ELSE UNCHANGED <<conn, closes>>
    /\ activity' = Asleep(now + activity_timeout)
    /\ UNCHANGED <<now, auth, pings, answered, gone, authRan>>
    /\ TimeOnly

\* A slip: the auth task closes the socket it was spawned for without
\* looking the connection up.
Mut_AuthExpire ==
    /\ auth.pc = "sleep"
    /\ Due(auth)
    /\ auth' = Done
    /\ authRan' = Some([at |-> now, open |-> conn.open, user |-> conn.user,
                        closed |-> ~is_authenticated(conn)])
    /\ IF ~is_authenticated(conn)
       THEN /\ conn' = close(conn)
            /\ closes' = closes \cup {[code |-> 4009, at |-> now, ping |-> -1]}
       ELSE UNCHANGED <<conn, closes>>
    /\ UNCHANGED <<now, activity, pings, answered, gone>>
    /\ TimeOnly

\* set_user_authentication_timeout after its sleep: a connection that is
\* not authenticated is closed with 4009.
AuthExpire ==
    /\ auth.pc = "sleep"
    /\ Due(auth)
    /\ auth' = Done
    /\ authRan' = Some([at |-> now, open |-> conn.open, user |-> conn.user,
                        closed |-> conn.open /\ ~is_authenticated(conn)])
    /\ IF conn.open /\ ~is_authenticated(conn)
       THEN /\ conn' = close(conn)
            /\ closes' = closes \cup {[code |-> 4009, at |-> now, ping |-> -1]}
       ELSE UNCHANGED <<conn, closes>>
    /\ UNCHANGED <<now, activity, pings, answered, gone>>
    /\ TimeOnly

\* A frame of the client: a message or a pusher:pong goes through
\* update_activity_timeout, a WebSocket PING frame through handle_ping_frame.
Frame(kind) ==
    /\ conn.open
    /\ ~conn.closed
    /\ conn' = IF kind = "ping_frame"
               THEN [update_activity(conn) EXCEPT !.status = Active]
               ELSE update_activity(conn)
    /\ answered' = IF conn.status.s = "PingSent"
                   THEN answered \cup {conn.status.t} ELSE answered
    /\ UNCHANGED <<now, activity, auth, pings, closes, gone, authRan>>
    /\ TimeOnly

\* pusher:signin accepted: the connection has a user.
SignIn ==
    /\ conn.open
    /\ ~conn.closed
    /\ ~conn.user
    /\ conn' = [update_activity(conn) EXCEPT !.user = TRUE]
    /\ answered' = IF conn.status.s = "PingSent"
                   THEN answered \cup {conn.status.t} ELSE answered
    /\ UNCHANGED <<now, activity, auth, pings, closes, gone, authRan>>
    /\ TimeOnly

\* clear_user_authentication_timeout after the signin: the task is aborted.
ClearAuth ==
    /\ conn.open
    /\ conn.user
    /\ auth.pc = "sleep"
    /\ auth' = [pc |-> "aborted", wake |-> 0]
    /\ UNCHANGED <<now, conn, activity, pings, answered, closes, gone, authRan>>
    /\ TimeOnly

\* The connection is cleaned up: the client went away, or the socket was
\* closed.
Cleanup ==
    /\ conn.open
    /\ conn' = [conn EXCEPT !.open = FALSE]
    /\ gone' = now
    /\ UNCHANGED <<now, activity, auth, pings, answered, closes, authRan>>
    /\ TimeOnly

TimeNext ==
    \/ Tick
    \/ \E write_ok \in BOOLEAN : ActivityCheck(write_ok)
    \/ PongCheck
    \/ AuthExpire
    \/ \E kind \in {"message", "pong", "ping_frame"} : Frame(kind)
    \/ SignIn
    \/ ClearAuth
    \/ Cleanup

\* A connection that has just been set up, on an app with or without user
\* authentication.
TimeAt(enable_user_authentication) ==
    /\ now = 0
    /\ conn = [open |-> TRUE, closed |-> FALSE, status |-> Active,
               last_activity |-> 0, user |-> FALSE,
               enable_user_authentication |-> enable_user_authentication]
    /\ activity = setup_initial_timeouts(enable_user_authentication).activity
    /\ auth = setup_initial_timeouts(enable_user_authentication).auth
    /\ pings = {}
    /\ answered = {}
    /\ closes = {}
    /\ gone = -1
    /\ authRan = None

(***************************************************************************)
(* Cluster queries (adapter/horizontal_adapter_base.rs): send_request on   *)
(* node 1 of a cluster of three nodes, and the query operations that call  *)
(* it.  What the nodes hold stays as it is while a query is under way.     *)
(***************************************************************************)
request_timeout_ms == 3
MaxClock == 8

ClusterNodes == 1..3
LocalNode == 1
ClusterPeers == ClusterNodes \ {LocalNode}

\* What each node holds for the app: the sockets of the queried channel,
\* its presence members (user_id -> user_info), the number of its sockets,
\* the connections of the queried user in the channel, and its channels
\* with their socket counts.
ClusterState ==
    [n \in ClusterNodes |->
        CASE n = 1 ->
               [channel_sockets |-> {"sock1"},
                members |-> [u \in {"u1"} |-> "info-n1"],
                sockets_count |-> 2,
                user_connections |-> 1,
                channels |-> [c \in {"presence-room", "chat"} |-> 1]]
          [] n = 2 ->
               [channel_sockets |-> {"sock2", "sock5", "sock6", "sock7"},
                members |-> [u \in {"u1", "u2"} |-> "info-n2"],
                sockets_count |-> 5,
                user_connections |-> 2,
                channels |-> [c \in {"presence-room", "chat"} |->
                                 IF c = "chat" THEN 1 ELSE 4]]
          [] OTHER ->
               [channel_sockets |-> {"sock3", "sock8"},
                members |-> [u \in {"u3"} |-> "info-n3"],
                sockets_count |-> 3,
                user_connections |-> 0,
                channels |-> [c \in {"presence-room"} |-> 2]]]

\* The query operations of the ConnectionManager and their RequestType.
QueryOps ==
    {"get_channel_socket_count", "get_sockets_count",
     "count_user_connections_in_channel", "get_channels_with_socket_count",
     "get_channel_members", "get_channel_sockets", "is_in_channel"}
CountOps ==
    {"get_channel_socket_count", "get_sockets_count",
     "count_user_connections_in_channel"}
RequestType(op) ==
    CASE op = "get_channel_socket_count" -> "ChannelSocketsCount"
      [] op = "get_sockets_count" -> "SocketsCount"
      [] op = "count_user_connections_in_channel" -> "CountUserConnectionsInChannel"
      [] op = "get_channels_with_socket_count" -> "ChannelsWithSocketsCount"
      [] op = "get_channel_members" -> "ChannelMembers"
      [] op = "get_channel_sockets" -> "ChannelSockets"
      [] OTHER -> "SocketExistsInChannel"

\* HashMap::extend: the entries of b replace those of a.
extend(a, b) ==
    [k \in DOMAIN a \cup DOMAIN b |-> IF k \in DOMAIN b THEN b[k] ELSE a[k]]

\* The ResponseBody send_request returns when no response is expected.
EmptyResponse ==
    [members |-> <<>>, socket_ids |-> {}, sockets_count |-> 0,
     channels_with_sockets_count |-> <<>>, exists |-> FALSE]

\* HorizontalAdapter::process_request on peer p: its ResponseBody.
process_request(p, request_type, socket_id) ==
    LET st == ClusterState[p]
    IN  [node_id |-> p,
         body |->
           CASE request_type = "ChannelSocketsCount" ->
                  [EmptyResponse EXCEPT !.sockets_count = Cardinality(st.channel_sockets)]
             [] request_type = "SocketsCount" ->
                  [EmptyResponse EXCEPT !.sockets_count = st.sockets_count]
             [] request_type = "CountUserConnectionsInChannel" ->
                  [EmptyResponse EXCEPT !.sockets_count = st.user_connections]
             [] request_type = "ChannelsWithSocketsCount" ->
                  [EmptyResponse EXCEPT !.channels_with_sockets_count = st.channels]
             [] request_type = "ChannelMembers" ->
                  [EmptyResponse EXCEPT !.members = st.members]
             [] request_type = "ChannelSockets" ->
                  [EmptyResponse EXCEPT !.socket_ids = st.channel_sockets]
             [] OTHER ->
                  [EmptyResponse EXCEPT !.exists = socket_id \in st.channel_sockets]]

\* The sum, channel by channel, of two maps of counts.
SumPerChannel(a, b) ==
    [c \in DOMAIN a \cup DOMAIN b |->
        (IF c \in DOMAIN a THEN a[c] ELSE 0) + (IF c \in DOMAIN b THEN b[c] ELSE 0)]

\* HorizontalAdapter::aggregate_responses: the responses combined field by
\* field (sum, union, or).
RECURSIVE aggregate_responses(_)
aggregate_responses(responses) ==
    IF responses = <<>> THEN EmptyResponse
    ELSE LET r == responses[Len(responses)].body
             rest == aggregate_responses(SubSeq(responses, 1, Len(responses) - 1))
         IN  [members |-> extend(rest.members, r.members),
              socket_ids |-> rest.socket_ids \cup r.socket_ids,
              sockets_count |-> rest.sockets_count + r.sockets_count,
              channels_with_sockets_count |->
                  SumPerChannel(rest.channels_with_sockets_count,
                                r.channels_with_sockets_count),
              exists |-> rest.exists \/ r.exists]

\* The answer of the local adapter to a query operation.
local_query(op, socket_id) ==
    LET st == ClusterState[LocalNode]
    IN  CASE op = "get_channel_socket_count" -> Cardinality(st.channel_sockets)
          [] op = "get_sockets_count" -> st.sockets_count
          [] op = "count_user_connections_in_channel" -> st.user_connections
          [] op = "get_channels_with_socket_count" -> st.channels
          [] op = "get_channel_members" -> st.members
          [] op = "get_channel_sockets" -> st.channel_sockets
          [] OTHER -> socket_id \in st.channel_sockets

\* A slip: a count operation returns the count of the peers alone.
Mut_query_result(op, local, response) ==
    IF op \in CountOps
    THEN Ok(IF IsSome(response.err) THEN local ELSE response.ret.sockets_count)
    ELSE Err("Other")

\* What a query operation returns, given the answer of the local adapter
\* and the result of send_request: the counts fall back to the local count
\* when send_request fails, the others return its error.
query_result(op, local, response) ==
    IF op \in CountOps
    THEN Ok(IF IsSome(response.err) THEN local
            ELSE local + response.ret.sockets_count)
    ELSE IF op = "get_channels_with_socket_count"
    THEN Ok(IF IsSome(response.err) THEN local
            ELSE SumPerChannel(local, response.ret.channels_with_sockets_count))
    ELSE IF IsSome(response.err) THEN Err(Unwrap(response.err))
    ELSE IF op = "get_channel_members"
    THEN Ok(extend(local, response.ret.members))
    ELSE IF op = "get_channel_sockets"
    THEN Ok(local \cup response.ret.socket_ids)
    ELSE Ok(response.ret.exists)

\* A slip: the responses that arrived before the timeout are dropped.
Mut_timeout_responses(pending_request) == <<>>

\* send_request, the timeout branch of the select: the responses recorded
\* so far, or none when the slot is gone.
timeout_responses(pending_request) ==
    IF IsSome(pending_request) THEN Unwrap(pending_request) ELSE <<>>

\* tokio::time::sleep(timeout_duration) in the select of the wait loop: a
\* sleep that begins when the select is entered.
select_sleep(entered) == entered + request_timeout_ms

NoRequest ==
    [pc |-> "idle", op |-> "", socket_id |-> "", node_count |-> [err |-> None, ret |-> 1],
     publish_ok |-> TRUE, expected |-> 0, began |-> 0, deadline |-> 0,
     permit |-> FALSE, responses |-> <<>>, timed_out |-> FALSE, arrived |-> {},
     combined |-> Ok(EmptyResponse), own |-> "none"]

\* The query returns: whether send_request was called and what it returned,
\* what the operation returns, the peers whose responses were aggregated and
\* the peers whose responses had arrived.
Returns(q, called, response, timed_out, received) ==
    Some([at |-> clock, began |-> q.began, op |-> q.op, socket_id |-> q.socket_id,
          node_count |-> q.node_count, publish_ok |-> q.publish_ok,
          expected |-> q.expected, waited |-> q.pc = "remove",
          timed_out |-> timed_out, received |-> received,
          arrived |-> q.arrived,
          called |-> called, response |-> response,
          result |-> IF ~called THEN Ok(TRUE)
                     ELSE query_result(q.op, local_query(q.op, q.socket_id), response)])

\* A query operation up to the wait of send_request: the local answer, the
\* node count, the PendingRequest, the publication of the pending, and the
\* return when no response is expected.
Begin(op, socket_id, node_count, publish_ok) ==
    LET q == [NoRequest EXCEPT !.op = op, !.socket_id = socket_id,
                               !.node_count = node_count, !.publish_ok = publish_ok,
                               !.began = clock,
                               !.expected = IF IsSome(node_count.err) THEN 0
                                            ELSE node_count.ret - 1]
    IN  /\ pending.pc = "idle"
        /\ IF op = "is_in_channel" /\ local_query(op, socket_id)
           THEN /\ node_count = [err |-> None, ret |-> 3]
                /\ publish_ok
                /\ pending' = [q EXCEPT !.pc = "done"]
                /\ returned' = Returns(q, FALSE, Ok(EmptyResponse), FALSE, {})
                /\ UNCHANGED <<slot, inflight>>
           ELSE IF IsSome(node_count.err)
           THEN /\ publish_ok
                /\ pending' = [q EXCEPT !.pc = "done"]
                /\ returned' = Returns(q, TRUE, Err("Redis"), FALSE, {})
                /\ UNCHANGED <<slot, inflight>>
           ELSE IF ~publish_ok
           THEN /\ pending' = [q EXCEPT !.pc = "done"]
                /\ slot' = Some(<<>>)
                /\ returned' = Returns(q, TRUE, Err("Redis"), FALSE, {})
                /\ UNCHANGED inflight
           ELSE IF q.expected = 0
           THEN /\ pending' = [q EXCEPT !.pc = "done", !.own = "inflight"]
                /\ slot' = None
                /\ inflight' = ClusterPeers
                /\ returned' = Returns(q, TRUE, Ok(EmptyResponse), FALSE, {})
           ELSE /\ pending' = [q EXCEPT !.pc = "waiting", !.own = "inflight",
                                        !.deadline = select_sleep(clock)]
                /\ slot' = Some(<<>>)
                /\ inflight' = ClusterPeers
                /\ UNCHANGED returned
        /\ UNCHANGED clock
        /\ ReqOnly

\* The response of peer p arrives (on_response, process_response): it is
\* recorded in the slot of the pending, if there is one, and the waiter is
\* notified.
Respond(p) ==
    /\ p \in inflight
    /\ inflight' = inflight \ {p}
    /\ IF IsSome(slot)
       THEN /\ slot' = Some(Append(Unwrap(slot),
                                   process_request(p, RequestType(pending.op),
                                                   pending.socket_id)))
            /\ pending' = [pending EXCEPT !.permit = TRUE]
       ELSE UNCHANGED <<slot, pending>>
    /\ UNCHANGED <<clock, returned>>
    /\ ReqOnly

\* A slip: a node answers its own request like any other.
Mut_on_request(n, request_node_id, request_type, socket_id) ==
    Ok(process_request(n, request_type, socket_id))

\* start_listeners, on_request on node n: the request of the node itself is
\* skipped with an error, for which the transport publishes no response.
on_request(n, request_node_id, request_type, socket_id) ==
    IF request_node_id = n THEN Err("Other")
    ELSE Ok(process_request(n, request_type, socket_id))

\* start_listeners, on_response on node n: a response that carries the
\* node's own id is dropped, any other goes to process_response, which
\* records it in the entry of its request.
on_response(n, response, pending_request) ==
    IF response.node_id = n THEN pending_request
    ELSE IF IsSome(pending_request)
    THEN Some(Append(Unwrap(pending_request), response))
    ELSE pending_request

\* The request published by the local node comes back to it on the request
\* topic, which every node listens to.
OwnRequest ==
    /\ pending.own = "inflight"
    /\ LET r == on_request(LocalNode, LocalNode, RequestType(pending.op),
                           pending.socket_id)
       IN  IF IsSome(r.err)
           THEN /\ pending' = [pending EXCEPT !.own = "skipped"]
                /\ UNCHANGED slot
           ELSE /\ pending' = [pending EXCEPT !.own = "answered"]
                /\ slot' = on_response(LocalNode, r.ret, slot)
    /\ UNCHANGED <<clock, inflight, returned>>
    /\ ReqOnly

\* A slip: the entry is taken out of pending_requests with its responses.
Mut_extract_responses(pending_request) == None

\* The responses are cloned and the entry stays in pending_requests.
extract_responses(pending_request) == pending_request

\* The end of the wait loop: break with the responses extracted.
Finish(responses, timed_out) ==
    /\ pending' = [pending EXCEPT !.pc = "aggregate", !.permit = FALSE,
                                   !.responses = responses, !.timed_out = timed_out,
                                   !.arrived = ClusterPeers \ inflight]
    /\ slot' = extract_responses(slot)
    /\ UNCHANGED returned

\* The entry of the request is gone while send_request waits for it:
\* "Request was removed unexpectedly".
RemovedUnexpectedly ==
    /\ pending' = [pending EXCEPT !.pc = "done", !.permit = FALSE]
    /\ returned' = Returns([pending EXCEPT !.pc = "remove", !.arrived = ClusterPeers \ inflight],
                           TRUE, Err("Other"), FALSE, {})
    /\ UNCHANGED slot

\* The wait loop, the notified branch: with enough responses the loop ends,
\* otherwise the select is entered again.
Notified ==
    /\ pending.pc = "waiting"
    /\ pending.permit
    /\ IF ~IsSome(slot)
       THEN RemovedUnexpectedly
       ELSE IF Len(Unwrap(slot)) >= pending.expected
       THEN Finish(Unwrap(slot), FALSE)
       ELSE /\ pending' = [pending EXCEPT !.permit = FALSE,
                                          !.deadline = select_sleep(clock)]
            /\ UNCHANGED <<slot, returned>>
    /\ UNCHANGED <<clock, inflight>>
    /\ ReqOnly

\* The wait loop, the sleep branch: the sleep of the select has ended.
TimedOut ==
    /\ pending.pc = "waiting"
    /\ clock >= pending.deadline
    /\ Finish(timeout_responses(slot), TRUE)
    /\ UNCHANGED <<clock, inflight>>
    /\ ReqOnly

\* After the loop: aggregate_responses under the lock of the adapter.
AggregateResponses ==
    /\ pending.pc = "aggregate"
    /\ pending' = [pending EXCEPT !.pc = "remove",
                                   !.combined = Ok(aggregate_responses(pending.responses))]
    /\ UNCHANGED <<clock, slot, inflight, returned>>
    /\ ReqOnly

\* The pending request is removed and send_request returns the aggregate.
RemovePending ==
    /\ pending.pc = "remove"
    /\ pending' = [pending EXCEPT !.pc = "done"]
    /\ slot' = None
    /\ returned' = Returns(pending, TRUE, pending.combined, pending.timed_out,
                           {pending.responses[i].node_id : i \in 1..Len(pending.responses)})
    /\ UNCHANGED <<clock, inflight>>
    /\ ReqOnly

\* Time passes while send_request waits and has nothing to wake for.
ClockTick ==
    /\ pending.pc = "waiting"
    /\ ~pending.permit
    /\ clock < pending.deadline
    /\ clock < MaxClock
    /\ clock' = clock + 1
    /\ UNCHANGED <<pending, slot, inflight, returned>>
    /\ ReqOnly

\* get_node_count: an error, or the number of nodes the transport counts.
NodeCounts ==
    {[err |-> Some("Redis"), ret |-> 0]} \cup {[err |-> None, ret |-> k] : k \in ClusterNodes}

ReqNext ==
    \/ \E op \in QueryOps, socket_id \in {"sock1", "sock2"},
          node_count \in NodeCounts, publish_ok \in BOOLEAN :
            Begin(op, socket_id, node_count, publish_ok)
    \/ \E p \in ClusterPeers : Respond(p)
    \/ OwnRequest
    \/ Notified
    \/ TimedOut
    \/ AggregateResponses
    \/ RemovePending
    \/ ClockTick

\* No query under way.
ReqIdle ==
    /\ clock = 0
    /\ pending = NoRequest
    /\ slot = None
    /\ inflight = {}
    /\ returned = None

(***************************************************************************)
(* One send of the horizontal adapter, step by step: the batches of        *)
(* LocalAdapter::send_batched_messages, then the publication of the        *)
(* BroadcastMessage.  The target snapshot is the sequence of the sockets   *)
(* 1..socket_count; the sockets of failing refuse the message.             *)
(***************************************************************************)
\* The sizes of the target snapshots tried, with the sends that fail.
MaxTargets == 3
FanInputs ==
    {[socket_count |-> n, failing |-> f] : n \in 0..MaxTargets, f \in SUBSET (1..2)}
      \cup {[socket_count |-> n, failing |-> f] :
              n \in {100, 101, 201}, f \in {{}, {1, 51}}}

\* slice::chunks(chunk_size) over the targets lo..len, each chunk as the
\* pair of its first and last target; chunks panics when chunk_size is 0.
RECURSIVE chunks(_, _, _)
chunks(lo, len, chunk_size) ==
    IF lo > len THEN <<>>
    ELSE LET hi == IF lo + chunk_size - 1 < len THEN lo + chunk_size - 1 ELSE len
         IN  <<[lo |-> lo, hi |-> hi]>> \o chunks(hi + 1, len, chunk_size)

\* A slip: the batch stops at the first send that fails.
Mut_send_batch(lo, hi, failing) ==
    LET stop == IF \E s \in lo..hi : s \in failing
                THEN CHOOSE s \in lo..hi :
                        s \in failing /\ \A t \in lo..(s - 1) : t \notin failing
                ELSE hi
    IN  [j \in 1..(stop - lo + 1) |-> [socket |-> lo + j - 1, ok |-> lo + j - 1 \notin failing]]

\* The task of one batch: send_raw_message for each socket in turn, the
\* result of each pushed to batch_results.
send_batch(lo, hi, failing) ==
    [j \in 1..(hi - lo + 1) |-> [socket |-> lo + j - 1, ok |-> lo + j - 1 \notin failing]]

\* A slip: the batch tasks are not awaited.
Mut_join_all(tasks) == TRUE

\* join_all(batch_tasks).await: every batch task has ended.
join_all(tasks) == \A i \in 1..Len(tasks) : tasks[i].state = "done"

\* The sends in flight: a running batch task has one send under way.
InFlight == Cardinality({i \in 1..Len(batches) : batches[i].state = "running"})

\* The lock around the HorizontalAdapter: HorizontalAdapterBase::send takes
\* it before it calls LocalAdapter::send and drops it when that has returned.
horizontal_locked == fan.pc = "local"

NoFan ==
    [pc |-> "idle", socket_count |-> 0, failing |-> {}, max_concurrent_batches |-> 0,
     local_result |-> "none", publish |-> "none", result |-> "none"]

\* HorizontalAdapterBase::send enters LocalAdapter::send, which spawns the
\* batch tasks of send_batched_messages; with no target batch_size is 0 and
\* chunks panics.
StartSend(input) ==
    LET sizes == batching(input.socket_count)
        q == [NoFan EXCEPT !.socket_count = input.socket_count,
                           !.failing = input.failing,
                           !.max_concurrent_batches = sizes.max_concurrent_batches]
    IN  /\ fan.pc = "idle"
        /\ IF sizes.batch_size = 0
           THEN /\ fan' = [q EXCEPT !.pc = "panicked"]
                /\ batches' = <<>>
           ELSE /\ fan' = [q EXCEPT !.pc = "local"]
                /\ batches' = [i \in 1..Len(chunks(1, input.socket_count, sizes.batch_size)) |->
                                  [lo |-> chunks(1, input.socket_count, sizes.batch_size)[i].lo,
                                   hi |-> chunks(1, input.socket_count, sizes.batch_size)[i].hi,
                                   state |-> "spawned",
                                   results |-> <<>>]]
        /\ FanOnly

\* A batch task gets a permit of the semaphore of its fan-out.
Acquire(i) ==
    /\ batches[i].state = "spawned"
    /\ InFlight < fan.max_concurrent_batches
    /\ batches' = [batches EXCEPT ![i].state = "running"]
    /\ UNCHANGED fan
    /\ FanOnly

\* A batch task sends to its sockets and ends, releasing its permit.
RunBatch(i) ==
    /\ batches[i].state = "running"
    /\ batches' = [batches EXCEPT
                      ![i].state = "done",
                      ![i].results = send_batch(batches[i].lo, batches[i].hi, fan.failing)]
    /\ UNCHANGED fan
    /\ FanOnly

\* LocalAdapter::send returns Ok once the batch tasks are joined, whatever
\* their results; HorizontalAdapterBase::send goes on to publish.
LocalDone ==
    /\ fan.pc = "local"
    /\ join_all(batches)
    /\ fan' = [fan EXCEPT !.pc = "publishing", !.local_result = "Ok"]
    /\ UNCHANGED batches
    /\ FanOnly

\* publish_broadcast returns, sooner or later: send returns its result.
Publish(publish_ok) ==
    /\ fan.pc = "publishing"
    /\ fan' = [fan EXCEPT !.pc = "done",
                          !.publish = IF publish_ok THEN "published" ELSE "failed",
                          !.result = IF publish_ok THEN "Ok" ELSE "Err"]
    /\ UNCHANGED batches
    /\ FanOnly

FanNext ==
    \/ \E input \in FanInputs : StartSend(input)
    \/ \E i \in 1..Len(batches) : Acquire(i)
    \/ \E i \in 1..Len(batches) : RunBatch(i)
    \/ LocalDone
    \/ \E publish_ok \in BOOLEAN : Publish(publish_ok)

\* No send under way.
FanIdle ==
    /\ fan = NoFan
    /\ batches = <<>>

(***************************************************************************)
(* The namespaces of a LocalAdapter: one Namespace per key of the          *)
(* namespaces map, made when it is first asked for.  Of a Namespace the    *)
(* user index and the channel index are kept here.                         *)
(***************************************************************************)
\* The apps: the id and the key of an App are two fields.
Apps == {[id |-> "app0", key |-> "app0"], [id |-> "app1", key |-> "key1"]}

\* The app a socket is connected to.
AppOf(s) ==
    IF s = 1 THEN [id |-> "app0", key |-> "app0"] ELSE [id |-> "app1", key |-> "key1"]

\* The keys the namespaces map can have.
NamespaceKeys == {a.id : a \in Apps} \cup {a.key : a \in Apps}

NewNamespace ==
    [users |-> [u \in Users |-> {}], channels |-> [c \in SendChannels |-> {}]]

\* ConnectionState::get_app_key
get_app_key(s) == AppOf(s).key

\* LocalAdapter::add_user: the namespace is the one of get_app_key;
\* Namespace::add_user puts the socket under the user of the connection.
add_user(nss, s, user_id) ==
    LET app_id == get_app_key(s)
    IN  [nss EXCEPT ![app_id].users[user_id] = @ \cup {s}]

\* LocalAdapter::remove_user, Namespace::remove_user
remove_user(nss, s, user_id) ==
    LET app_id == get_app_key(s)
    IN  [nss EXCEPT ![app_id].users[user_id] = @ \ {s}]

\* The connection is signed in as user_id and add_user is called.
AddUser(s, user_id) ==
    /\ signed_in[s] = ""
    /\ signed_in' = [signed_in EXCEPT ![s] = user_id]
    /\ namespaces' = add_user(namespaces, s, user_id)
    /\ UNCHANGED last_send
    /\ UserOnly

\* The connection ends and remove_user is called.
RemoveUser(s) ==
    /\ signed_in[s] # ""
    /\ signed_in' = [signed_in EXCEPT ![s] = ""]
    /\ namespaces' = remove_user(namespaces, s, signed_in[s])
    /\ UNCHANGED last_send
    /\ UserOnly

\* LocalAdapter::add_to_channel with the id of the app of the socket.
JoinChannel(s, channel) ==
    /\ s \notin namespaces[AppOf(s).id].channels[channel]
    /\ namespaces' = [namespaces EXCEPT ![AppOf(s).id].channels[channel] = @ \cup {s}]
    /\ UNCHANGED <<signed_in, last_send>>
    /\ UserOnly

\* LocalAdapter::send(channel, message, except, app_id): the sockets the
\* message is sent to.
SendTo(app_id, channel, except) ==
    /\ last_send' = [app_id |-> app_id, channel |-> channel, except |-> except,
                     targets |-> local_send(namespaces[app_id], channel, except)]
    /\ UNCHANGED <<namespaces, signed_in>>
    /\ UserOnly

UserNext ==
    \/ \E s \in Sockets, user_id \in Users : AddUser(s, user_id)
    \/ \E s \in Sockets : RemoveUser(s)
    \/ \E s \in Sockets, channel \in SendChannels : JoinChannel(s, channel)
    \/ \E a \in Apps, channel \in SendChannels,
          except \in {None} \cup {Some(SocketIdStr(s)) : s \in Sockets} :
            SendTo(a.id, channel, except)

\* No socket signed in, nothing sent.
UserIdle ==
    /\ namespaces = [k \in NamespaceKeys |-> NewNamespace]
    /\ signed_in = [s \in Sockets |-> ""]
    /\ last_send = [app_id |-> "", channel |-> "", except |-> None, targets |-> {}]

(***************************************************************************)
(* A subscribe and the publishes on the channel, on one node: the sockets  *)
(* of the channel, where each socket's subscribe is, and the frames queued *)
(* for each socket, in order.  Event m is the m-th message published.      *)
(***************************************************************************)
AckFrame == "pusher_internal:subscription_succeeded"

\* ChannelManager::subscribe, its lock scope: add_to_channel puts the socket
\* in the channel; the lock is released and the JoinResponse returned.
IndexSubscriber(s) ==
    /\ deliv.pc[s] = "out"
    /\ deliv' = [deliv EXCEPT !.pc[s] = "joined", !.channel = @ \cup {s}]
    /\ AckOnly

\* The handler of pusher:subscribe sends the acknowledgement for the
\* JoinResponse it got.
AckSubscriber(s) ==
    /\ deliv.pc[s] = "joined"
    /\ deliv' = [deliv EXCEPT !.pc[s] = "acked",
                              !.outbox[s] = Append(@, AckFrame)]
    /\ AckOnly

\* LocalAdapter::send on the channel: the message goes to the sockets the
\* channel has when the targets are collected.
PublishEvent ==
    LET targets == get_channel_socket_refs_except(
                       [channels |-> [c \in {"chat"} |-> deliv.channel]], "chat", None)
    IN  /\ deliv.events < MaxMessages
        /\ deliv' = [deliv EXCEPT
                        !.events = @ + 1,
                        !.outbox = [s \in Sockets |->
                                       IF s \in targets
                                       THEN Append(deliv.outbox[s], message_to_string(deliv.events + 1))
                                       ELSE deliv.outbox[s]]]
        /\ AckOnly

\* pusher:unsubscribe: the socket leaves the channel.
LeaveChannel(s) ==
    /\ deliv.pc[s] = "acked"
    /\ deliv' = [deliv EXCEPT !.pc[s] = "left", !.channel = @ \ {s}]
    /\ AckOnly

AckNext ==
    \/ \E s \in Sockets : IndexSubscriber(s)
    \/ \E s \in Sockets : AckSubscriber(s)
    \/ PublishEvent
    \/ \E s \in Sockets : LeaveChannel(s)

\* No socket in the channel, nothing published.
AckIdle ==
    deliv = [channel |-> {}, pc |-> [s \in Sockets |-> "out"],
             outbox |-> [s \in Sockets |-> <<>>], events |-> 0]

\* No function tried yet.
NoProbe == [fn |-> "none"]

(***************************************************************************)
(* WorkerThreadsConfig (cleanup/mod.rs): its serialization, its            *)
(* deserialization from a JSON value, and resolve.                         *)
(***************************************************************************)
MaxThreads == 8
MaxCpus == 20

Auto == [tag |-> "Auto", n |-> 0]
Fixed(n) == [tag |-> "Fixed", n |-> n]

\* The JSON values: a string, an unsigned number, a negative number.
JsonStr(s) == [t |-> "str", s |-> s, n |-> 0]
JsonU64(n) == [t |-> "u64", s |-> "", n |-> n]
JsonI64(n) == [t |-> "i64", s |-> "", n |-> n]

CfgOk(cfg) == [ok |-> TRUE, cfg |-> cfg, error |-> ""]
CfgErr(e) == [ok |-> FALSE, cfg |-> Auto, error |-> e]

UpperCase == "AUTO"
LowerCase == "auto"
Digits == "0123456789"

\* The place of the character ch in the string text, or 0.
IndexIn(text, ch) ==
    IF \E i \in 1..Len(text) : SubSeq(text, i, i) = ch
    THEN CHOOSE i \in 1..Len(text) : SubSeq(text, i, i) = ch
    ELSE 0

\* str::to_lowercase, for the letters of "auto".
RECURSIVE to_lowercase(_)
to_lowercase(value) ==
    IF value = "" THEN ""
    ELSE LET ch == SubSeq(value, 1, 1)
             at == IndexIn(UpperCase, ch)
         IN  (IF at > 0 THEN SubSeq(LowerCase, at, at) ELSE ch)
               \o to_lowercase(SubSeq(value, 2, Len(value)))

\* The number written by a string of decimal digits, read after acc.
RECURSIVE DigitsValue(_, _)
DigitsValue(text, acc) ==
    IF text = "" THEN acc
    ELSE DigitsValue(SubSeq(text, 2, Len(text)),
                     10 * acc + IndexIn(Digits, SubSeq(text, 1, 1)) - 1)

\* str::parse::<usize>: an optional "+" and at least one decimal digit.
parse_usize(value) ==
    LET body == IF StartsWith(value, "+") THEN SubSeq(value, 2, Len(value)) ELSE value
    IN  IF body # "" /\ \A i \in 1..Len(body) : IndexIn(Digits, SubSeq(body, i, i)) > 0
        THEN [ok |-> TRUE, n |-> DigitsValue(body, 0)]
        ELSE [ok |-> FALSE, n |-> 0]

\* WorkerThreadsVisitor::visit_str
visit_str(value) ==
    IF to_lowercase(value) = "auto" THEN CfgOk(Auto)
    ELSE LET parsed == parse_usize(value)
         IN  IF parsed.ok /\ parsed.n > 0 THEN CfgOk(Fixed(parsed.n))
             ELSE IF parsed.ok THEN CfgErr("worker_threads must be greater than 0")
             ELSE CfgErr("expected auto or positive integer")

\* A slip: zero is taken for a number of threads.
Mut_visit_u64(value) == CfgOk(Fixed(value))

\* WorkerThreadsVisitor::visit_u64 (usize is 64 bits wide)
visit_u64(value) ==
    IF value > 0 THEN CfgOk(Fixed(value))
    ELSE CfgErr("worker_threads must be greater than 0")

\* Deserialize for WorkerThreadsConfig: deserialize_any hands the value to
\* the visitor, which has no method for a negative number.
deserialize(json) ==
    IF json.t = "str" THEN visit_str(json.s)
    ELSE IF json.t = "u64" THEN visit_u64(json.n)
    ELSE CfgErr("invalid type")

\* Serialize for WorkerThreadsConfig
serialize(cfg) ==
    IF cfg.tag = "Auto" THEN JsonStr("auto") ELSE JsonU64(cfg.n)

\* (cpu_count / 4).clamp(1, 4)
clamp(v, lo, hi) == IF v < lo THEN lo ELSE IF v > hi THEN hi ELSE v

\* WorkerThreadsConfig::resolve
resolve(cfg, cpu_count) ==
    IF cfg.tag = "Auto" THEN clamp(cpu_count \div 4, 1, 4) ELSE cfg.n

\* The JSON values tried.
ConfigInputs ==
    {JsonU64(n) : n \in 0..MaxThreads}
      \cup {JsonI64(0 - 1)}
      \cup {JsonStr(s) : s \in {"auto", "AUTO", "Auto", "0", "00", "1", "8", "12",
                                 "+3", "-1", "invalid", "", "4x"}}

NoConfig ==
    [fn |-> "none", json |-> JsonStr(""), out |-> CfgErr(""), cpu_count |-> 0, threads |-> 0]

\* A JSON value is deserialized.
Deserialize(json) ==
    /\ probe' = [NoConfig EXCEPT !.fn = "deserialize", !.json = json,
                                 !.out = deserialize(json)]
    /\ ProbeOnly

\* A configuration is serialized and the JSON value deserialized.
RoundTrip(cfg) ==
    /\ probe' = [NoConfig EXCEPT !.fn = "roundtrip", !.json = serialize(cfg),
                                 !.out = deserialize(serialize(cfg))]
    /\ ProbeOnly

\* The configuration just deserialized is resolved on a machine.
Resolve(cpu_count) ==
    /\ probe.fn \in {"deserialize", "roundtrip"}
    /\ probe.out.ok
    /\ probe' = [probe EXCEPT !.fn = "resolve", !.cpu_count = cpu_count,
                              !.threads = resolve(probe.out.cfg, cpu_count)]
    /\ ProbeOnly

ConfigNext ==
    \/ \E json \in ConfigInputs : Deserialize(json)
    \/ \E cfg \in {Auto} \cup {Fixed(n) : n \in 1..MaxThreads} : RoundTrip(cfg)
    \/ \E cpu_count \in 1..MaxCpus : Resolve(cpu_count)

(***************************************************************************)
(* PusherMessage (protocol/messages.rs): the messages the server builds    *)
(* and the JSON value each is serialized to, as the tests of               *)
(* tests/protocol_compliance.rs fix them.                                  *)
(***************************************************************************)
\* A JSON object is a sequence of <<name, value text>> pairs.
Keys(obj) == {obj[i][1] : i \in 1..Len(obj)}

\* The texts of a sequence joined by commas.
RECURSIVE Join(_)
Join(texts) ==
    IF texts = <<>> THEN ""
    ELSE IF Len(texts) = 1 THEN texts[1]
    ELSE texts[1] \o "," \o Join(Tail(texts))

\* Value::to_string of an object: {"name":value,...}
object_to_string(obj) ==
    "{" \o Join([i \in 1..Len(obj) |-> "\"" \o obj[i][1] \o "\":" \o obj[i][2]]) \o "}"

\* A JSON string literal.
Quoted(text) == "\"" \o text \o "\""

PusherMessage(event, channel, data, user_id) ==
    [event |-> event, channel |-> channel, data |-> data, user_id |-> user_id]

\* PusherMessage::connection_established
connection_established(socket_id) ==
    PusherMessage("pusher:connection_established", None,
        Some(String(object_to_string(<<<<"socket_id", Quoted(socket_id)>>,
                                       <<"activity_timeout", "120">>>>))),
        None)

\* PusherMessage::error
error(code, message, channel) ==
    PusherMessage("pusher:error", channel,
        Some(Json(<<<<"code", ToString(code)>>, <<"message", Quoted(message)>>>>)),
        None)

\* A slip: the signature of the sign-in request is sent back with the user.
Mut_signin_success(user_data) ==
    PusherMessage("pusher:signin_success", None,
        Some(Json(<<<<"user_data", Quoted(user_data)>>,
                    <<"auth", Quoted("app_key:signature")>>>>)),
        None)

\* PusherMessage::signin_success
signin_success(user_data) ==
    PusherMessage("pusher:signin_success", None,
        Some(Json(<<<<"user_data", Quoted(user_data)>>>>)), None)

\* PusherMessage::ping and PusherMessage::pong
ping == PusherMessage("pusher:ping", None, None, None)
pong == PusherMessage("pusher:pong", None, None, None)

\* PresenceData {ids, hash, count} as a JSON object; the hash is left out.
PresenceData(ids) ==
    <<<<"ids", "[" \o Join([i \in 1..Len(ids) |-> Quoted(ids[i])]) \o "]">>,
      <<"count", ToString(Len(ids))>>>>

\* PusherMessage::subscription_succeeded
subscription_succeeded(channel, presence_data) ==
    PusherMessage("pusher_internal:subscription_succeeded", Some(channel),
        Some(String(IF IsSome(presence_data)
                    THEN object_to_string(
                           <<<<"presence", object_to_string(Unwrap(presence_data))>>>>)
                    ELSE "{}")),
        None)

\* PusherMessage::member_added
member_added(channel, user_id, user_info) ==
    PusherMessage("pusher_internal:member_added", Some(channel),
        Some(String(object_to_string(
               <<<<"user_id", Quoted(user_id)>>>>
                 \o (IF IsSome(user_info)
                     THEN <<<<"user_info", object_to_string(Unwrap(user_info))>>>>
                     ELSE <<>>)))),
        None)

\* PusherMessage::member_removed
member_removed(channel, user_id) ==
    PusherMessage("pusher_internal:member_removed", Some(channel),
        Some(String(object_to_string(<<<<"user_id", Quoted(user_id)>>>>))), None)

\* PusherMessage::channel_event
channel_event(event, channel, data) ==
    PusherMessage(event, Some(channel), Some(String(object_to_string(data))), None)

\* PusherMessage::cache_miss_event
cache_miss_event(channel) ==
    PusherMessage("pusher:cache_miss", Some(channel), Some(String("{}")), None)

\* PusherMessage::watchlist_online_event
watchlist_online_event(user_ids) ==
    PusherMessage("online", None,
        Some(Json(<<<<"user_ids",
                      "[" \o Join([i \in 1..Len(user_ids) |-> Quoted(user_ids[i])]) \o "]">>>>)),
        None)

\* The JSON value of a data field: absent, a string or an object.
DataAbsent == [t |-> "absent", s |-> "", obj |-> <<>>]
DataString(s) == [t |-> "string", s |-> s, obj |-> <<>>]
DataObject(obj) == [t |-> "object", s |-> "", obj |-> obj]

\* serde_json::to_value(message): a field that is None is skipped, and the
\* untagged MessageData is written as its content.
message_to_json(message) ==
    [event |-> message.event,
     channel |-> message.channel,
     data |-> IF ~IsSome(message.data) THEN DataAbsent
              ELSE IF Unwrap(message.data).kind = "String"
                   THEN DataString(Unwrap(message.data).text)
                   ELSE DataObject(Unwrap(message.data).value),
     user_id |-> message.user_id]

ErrorCodes == {4001, 4002, 4003, 4009, 4100, 4201, 4301}
ErrorTexts ==
    {"Application does not exist", "Connection timeout", "Pong reply not received"}
EventNames == {"my-event", "other-event"}
EventData ==
    {<<>>, <<<<"message", Quoted("Hello")>>>>,
     <<<<"message", Quoted("Hello")>>, <<"timestamp", "1234567890">>>>,
     <<<<"ciphertext", Quoted("base64")>>, <<"nonce", Quoted("base64")>>>>}
UserInfos == {None, Some(<<<<"name", Quoted("Alice")>>>>)}
UserLists == {<<>>, <<"u1">>, <<"u1", "u2">>}

NoMessage ==
    [fn |-> "none", message |-> ping, json |-> message_to_json(ping)]

\* The message a constructor built, and the JSON value sent to the socket.
Built(fn, message) ==
    [fn |-> fn, message |-> message, json |-> message_to_json(message)]

ConnectionEstablished(s) ==
    /\ probe' = Built("connection_established", connection_established(SocketIdStr(s)))
    /\ ProbeOnly
Error(code, text, channel) ==
    /\ probe' = Built("error", error(code, text, channel))
    /\ ProbeOnly
SigninSuccess(user_data) ==
    /\ probe' = Built("signin_success", signin_success(user_data))
    /\ ProbeOnly
Ping ==
    /\ probe' = Built("ping", ping)
    /\ ProbeOnly
Pong ==
    /\ probe' = Built("pong", pong)
    /\ ProbeOnly
SubscriptionSucceeded(channel, presence_data) ==
    /\ probe' = Built("subscription_succeeded", subscription_succeeded(channel, presence_data))
    /\ ProbeOnly
MemberAdded(channel, user_id, user_info) ==
    /\ probe' = Built("member_added", member_added(channel, user_id, user_info))
    /\ ProbeOnly
MemberRemoved(channel, user_id) ==
    /\ probe' = Built("member_removed", member_removed(channel, user_id))
    /\ ProbeOnly
ChannelEvent(event, channel, data) ==
    /\ probe' = Built("channel_event", channel_event(event, channel, data))
    /\ ProbeOnly
CacheMissEvent(channel) ==
    /\ probe' = Built("cache_miss_event", cache_miss_event(channel))
    /\ ProbeOnly
WatchlistOnlineEvent(user_ids) ==
    /\ probe' = Built("watchlist_online_event", watchlist_online_event(user_ids))
    /\ ProbeOnly

ProtocolNext ==
    \/ \E s \in Sockets : ConnectionEstablished(s)
    \/ \E code \in ErrorCodes, text \in ErrorTexts,
          channel \in {None} \cup {Some(c) : c \in Channels} : Error(code, text, channel)
    \/ \E u \in Users : SigninSuccess(object_to_string(<<<<"id", Quoted(u)>>>>))
    \/ Ping
    \/ Pong
    \/ \E channel \in Channels,
          presence_data \in {None} \cup {Some(PresenceData(ids)) : ids \in UserLists} :
            SubscriptionSucceeded(channel, presence_data)
    \/ \E channel \in Channels, u \in Users, user_info \in UserInfos :
            MemberAdded(channel, u, user_info)
    \/ \E channel \in Channels, u \in Users : MemberRemoved(channel, u)
    \/ \E event \in EventNames, channel \in Channels, data \in EventData :
            ChannelEvent(event, channel, data)
    \/ \E channel \in Channels : CacheMissEvent(channel)
    \/ \E user_ids \in UserLists : WatchlistOnlineEvent(user_ids)

(***************************************************************************)
(* set_activity_timeout (adapter/handler/timeout_management.rs) called     *)
(* more than once for one socket: the handle kept in the socket state and  *)
(* the tasks spawned.  Each call takes the lock of the connection manager  *)
(* to clear, releases it, spawns, and takes it again to store the handle.  *)
(***************************************************************************)
MaxCalls == 2
Calls == 1..MaxCalls

\* TimeoutHandles::clear_activity_timeout: the task of the stored handle
\* is aborted and the handle taken out.
clear_activity_timeout(t) ==
    [t EXCEPT !.handle = None,
              !.task = IF IsSome(t.handle)
                       THEN [@ EXCEPT ![Unwrap(t.handle)] =
                               IF @ = "running" THEN "aborted" ELSE @]
                       ELSE @]

\* A JoinHandle is dropped: the task goes on detached, or, should the handle
\* abort on drop, is aborted.
drop_handle(t, handle) ==
    IF IsSome(handle) /\ t.abort_on_drop /\ t.task[Unwrap(handle)] = "running"
    THEN [t EXCEPT !.task[Unwrap(handle)] = "aborted"]
    ELSE t

\* The tasks that have been spawned and have neither ended nor been aborted.
Running == {i \in Calls : timers.task[i] = "running"}

\* set_activity_timeout, call i: clear_activity_timeout under the lock;
\* overlapped records that an earlier call has yet to store its handle.
ClearActivityTimeout(i) ==
    /\ timers.call[i] = "idle"
    /\ \A j \in Calls : j < i => timers.call[j] # "idle"
    /\ timers' = [(IF timers.open THEN clear_activity_timeout(timers) ELSE timers)
                     EXCEPT !.call[i] = "cleared",
                            !.overlapped = @ \/ \E j \in Calls :
                                                  timers.call[j] \in {"cleared", "spawned"}]
    /\ TaskOnly

\* set_activity_timeout, call i: tokio::spawn of the task, which sleeps.
SpawnTask(i) ==
    /\ timers.call[i] = "cleared"
    /\ timers' = [timers EXCEPT !.call[i] = "spawned", !.task[i] = "running"]
    /\ TaskOnly

\* set_activity_timeout, call i: the handle is stored in the socket state
\* if the connection is still there, and dropped if not; a handle that was
\* in the field is dropped by the assignment.
StoreHandle(i) ==
    /\ timers.call[i] = "spawned"
    /\ timers' = [(IF timers.open
                   THEN [drop_handle(timers, timers.handle) EXCEPT !.handle = Some(i)]
                   ELSE [drop_handle(timers, Some(i)) EXCEPT !.unstored = @ \cup {i}])
                     EXCEPT !.call[i] = "done"]
    /\ TaskOnly

\* The task of call i wakes: it ends when the connection is gone, and sends
\* a ping to an inactive connection otherwise.
TaskWake(i) ==
    /\ timers.task[i] = "running"
    /\ timers' = IF timers.open
                 THEN [timers EXCEPT !.pinged = @ \cup {i}]
                 ELSE [timers EXCEPT !.task[i] = "ended"]
    /\ TaskOnly

\* The connection is cleaned up: the socket state and its handle are dropped.
RemoveConnection ==
    /\ timers.open
    /\ timers' = [drop_handle(timers, timers.handle) EXCEPT !.open = FALSE,
                                                            !.handle = None]
    /\ TaskOnly

TaskNext ==
    \/ \E i \in Calls : ClearActivityTimeout(i)
    \/ \E i \in Calls : SpawnTask(i)
    \/ \E i \in Calls : StoreHandle(i)
    \/ \E i \in Calls : TaskWake(i)
    \/ RemoveConnection

\* A connection with no activity task yet.
NoTimers(abort_on_drop) ==
    [open |-> TRUE, abort_on_drop |-> abort_on_drop, handle |-> None,
     call |-> [i \in Calls |-> "idle"], task |-> [i \in Calls |-> "unspawned"],
     pinged |-> {}, unstored |-> {}, overlapped |-> FALSE]
TaskIdle == timers = NoTimers(FALSE)

(***************************************************************************)
(* ChannelManager::unsubscribe from a presence channel, in its two lock    *)
(* scopes: the member is read, the lock released, then the socket is       *)
(* removed.  The other sockets of the node join and leave the channel in   *)
(* between.  One node, the channel "presence-room".                        *)
(***************************************************************************)
\* The joins and leaves of other sockets counted between a read and the
\* removal that follows it.
MaxBetween == 3

\* A slip: the member is not captured.
Mut_read_member(members, user_id) == None

\* members.get(user_id).map(|member| PresenceMember {user_id, ..})
read_member(members, user_id) ==
    IF IsSome(user_id) /\ Unwrap(user_id) \in members THEN user_id ELSE None

\* ChannelManager::create_leave_response
create_leave_response(left, remaining_connections, member) ==
    [left |-> left, remaining_connections |-> remaining_connections, member |-> member]

\* The user ids among the presence members of the channel.
ChannelUsers == {leave.members[s] : s \in leave.sockets} \ {""}

\* Another socket subscribes to the channel as one of its users.
JoinOther(s, user_id) ==
    /\ s \notin leave.sockets
    /\ (leave.pc = "read") => (leave.between < MaxBetween)
    /\ s # leave.socket_id
    /\ leave' = [leave EXCEPT !.sockets = @ \cup {s}, !.members[s] = user_id,
                              !.between = IF leave.pc = "read" THEN @ + 1 ELSE @]
    /\ LeaveOnly

\* Another socket unsubscribes or disconnects.
PartOther(s) ==
    /\ s \in leave.sockets
    /\ (leave.pc = "read") => (leave.between < MaxBetween)
    /\ s # leave.socket_id
    /\ leave' = [leave EXCEPT !.sockets = @ \ {s}, !.members[s] = "",
                              !.between = IF leave.pc = "read" THEN @ + 1 ELSE @]
    /\ LeaveOnly

\* unsubscribe of socket s, first lock scope: get_channel_members and the
\* member of the user; when get_channel_members fails (members_ok is its
\* answer) unsubscribe returns the error and the socket stays.
ReadMember(s, members_ok) ==
    /\ leave.pc = "idle"
    /\ s \in leave.sockets
    /\ leave' = IF members_ok
                THEN [leave EXCEPT
                        !.pc = "read", !.socket_id = s, !.between = 0,
                        !.user_id = Some(leave.members[s]),
                        !.member = read_member(ChannelUsers, Some(leave.members[s]))]
                ELSE [leave EXCEPT !.response = None, !.departed = ""]
    /\ LeaveOnly

\* unsubscribe, second lock scope: remove_from_channel, the remaining
\* count, the LeaveResponse; the handler then drops the presence member.
RemoveSocket ==
    /\ leave.pc = "read"
    /\ leave' = [leave EXCEPT
                    !.pc = "idle", !.socket_id = 0,
                    !.sockets = @ \ {leave.socket_id},
                    !.members[leave.socket_id] = "",
                    !.departed = leave.members[leave.socket_id],
                    !.response = Some(create_leave_response(
                                         leave.socket_id \in leave.sockets,
                                         Cardinality(leave.sockets \ {leave.socket_id}),
                                         leave.member))]
    /\ LeaveOnly

LeaveNext ==
    \/ \E s \in Sockets : \E user_id \in UsersOf(s) : JoinOther(s, user_id)
    \/ \E s \in Sockets : PartOther(s)
    \/ \E s \in Sockets, members_ok \in BOOLEAN : ReadMember(s, members_ok)
    \/ RemoveSocket

\* An empty channel; no unsubscribe yet.
NoLeaving ==
    [sockets |-> {}, members |-> [s \in Sockets |-> ""], pc |-> "idle",
     socket_id |-> 0, user_id |-> None, member |-> None, between |-> 0,
     departed |-> "", response |-> None]
LeaveIdle == leave = NoLeaving

(***************************************************************************)
(* The Redis rate limiter (rate_limiter/redis_limiter.rs): one key, a      *)
(* sorted set whose members and scores are the second of the call.  Calls  *)
(* run one at a time; the clock counts seconds.                            *)
(***************************************************************************)
max_requests == 2
window_secs == 2
MaxNow == 6
MaxSameSecond == 3
Seconds == window_secs..MaxNow

saturating_sub(a, b) == IF a > b THEN a - b ELSE 0

\* ZREVRANGEBYSCORE key max min: the members whose score is in [min, max],
\* a read that leaves the sorted set as it is.
zrevrangebyscore(zset, max, min) == {e \in zset : min <= e.score /\ e.score <= max}
zcard(zset) == Cardinality(zset)
\* ZADD key score member: a member already in the set only gets the score.
zadd(zset, score, member) ==
    {e \in zset : e.member # member} \cup {[member |-> member, score |-> score]}
\* EXPIRE key seconds: nothing on a key that does not exist (an empty sorted
\* set); 0 is a key without expiry.
expire(l, seconds) == IF l.zset = {} THEN l.deadline ELSE l.now + seconds

\* The allowed calls with a timestamp inside the window that ends at t.
AllowedIn(granted, t) ==
    SumOver({u \in Seconds : t - window_secs < u /\ u <= t}, granted)

run_sliding_window_check(l, increment) ==
    LET now_secs == l.now
        window_start == now_secs - window_secs
        old == zrevrangebyscore(l.zset, 0, window_start)
        count == zcard(l.zset)
        deadline == expire(l, window_secs)
        remaining == saturating_sub(max_requests, count)
        allowed == remaining > 0
        zset == IF increment /\ allowed THEN zadd(l.zset, now_secs, now_secs) ELSE l.zset
    IN  [l EXCEPT
            !.zset = zset,
            !.deadline = deadline,
            !.calls = @ + 1,
            !.granted[now_secs] = IF increment /\ allowed THEN @ + 1 ELSE @,
            !.ret = Some([allowed |-> allowed,
                          remaining |-> IF increment /\ allowed
                                        THEN saturating_sub(remaining, 1)
                                        ELSE remaining,
                          reset_after |-> window_secs,
                          limit |-> max_requests,
                          increment |-> increment,
                          at |-> now_secs,
                          before |-> AllowedIn(l.granted, now_secs),
                          recorded |-> zset # l.zset])]

Check ==
    /\ limiter.calls < MaxSameSecond
    /\ limiter' = run_sliding_window_check(limiter, FALSE)
    /\ LimiterOnly

Increment ==
    /\ limiter.calls < MaxSameSecond
    /\ limiter' = run_sliding_window_check(limiter, TRUE)
    /\ LimiterOnly

\* reset: DEL of the key; the history of the key starts again.
Reset ==
    /\ limiter.zset # {}
    /\ limiter' = [limiter EXCEPT !.zset = {}, !.deadline = 0, !.ret = None,
                                  !.granted = [u \in Seconds |-> 0]]
    /\ LimiterOnly

\* One second passes; Redis deletes the key when its expiry is reached.
Second ==
    /\ limiter.now < MaxNow
    /\ LET now_secs == limiter.now + 1
           expired == limiter.deadline # 0 /\ now_secs >= limiter.deadline
       IN  limiter' = [limiter EXCEPT
                          !.now = now_secs,
                          !.calls = 0,
                          !.zset = IF expired THEN {} ELSE @,
                          !.deadline = IF expired THEN 0 ELSE @]
    /\ LimiterOnly

LimiterNext ==
    \/ Check
    \/ Increment
    \/ Reset
    \/ Second

NoLimiter ==
    [now |-> window_secs, zset |-> {}, deadline |-> 0, calls |-> 0,
     granted |-> [u \in Seconds |-> 0], ret |-> None]
LimiterIdle == limiter = NoLimiter

(***************************************************************************)
(* The Redis queue manager (queue/redis_queue_manager.rs): one queue, a    *)
(* Redis list, and the worker tasks that process_queue started.            *)
(***************************************************************************)
concurrency == 2
MaxJobs == 3
Workers == 1..concurrency
JobIds == 1..MaxJobs
\* What a job will do in the processor.
JobKinds == {"fine", "failing"}

\* serde_json::to_string of a JobData and serde_json::from_str::<JobData>;
\* a text that is no JobData is an error.
job_to_string(data) == <<"{", data.id, data.kind, "}">>
job_from_str(text) ==
    IF Len(text) = 4 /\ text[1] = "{" /\ text[4] = "}"
    THEN Ok([id |-> text[2], kind |-> text[3]])
    ELSE Err("Json")

\* RPUSH key value: the value becomes the last element of the list.
rpush(list, value) == Append(list, value)
\* A slip: the first element is read and stays in the list.
Mut_blpop(list) ==
    IF list = <<>> THEN [list |-> list, value |-> None]
    ELSE [list |-> list, value |-> Some(Head(list))]
\* BLPOP key timeout: the first element is taken off the list; nothing after
\* the timeout on an empty list.
blpop(list) ==
    IF list = <<>> THEN [list |-> list, value |-> None]
    ELSE [list |-> Tail(list), value |-> Some(Head(list))]

\* The ids of the jobs in a list, in the order of the list; an entry that
\* is no job carries its id second as well.
ListIds(list) == [i \in 1..Len(list) |-> list[i][2]]

\* add_to_queue: RPUSH of the serialized job.
AddToQueue(kind) ==
    /\ queue.next <= MaxJobs
    /\ LET data == [id |-> queue.next, kind |-> kind]
           data_json == job_to_string(data)
       IN  queue' = [queue EXCEPT !.list = rpush(@, data_json),
                                  !.next = @ + 1]
    /\ QueueOnly

\* Another writer of the list pushes a text that is no JobData.
PushForeign ==
    /\ queue.next <= MaxJobs
    /\ queue' = [queue EXCEPT !.list = rpush(@, <<"#", queue.next>>),
                              !.next = @ + 1]
    /\ QueueOnly

\* One round of a worker's loop up to the match: BLPOP under the connection
\* lock.  An empty list (Ok(None)) is the next round; a Redis error puts the
\* worker to sleep for a second.
Blpop(w, redis_ok) ==
    /\ queue.workers[w].pc = "idle"
    /\ IF ~redis_ok
       THEN queue' = [queue EXCEPT !.workers[w].pc = "sleeping"]
       ELSE LET r == blpop(queue.list)
            IN  /\ IsSome(r.value)
                /\ queue' = [queue EXCEPT
                       !.list = r.list,
                       !.workers[w] = [pc |-> "holding", job |-> r.value],
                       !.handed = Append(@, [worker |-> w, id |-> r.value[1][2]])]
    /\ QueueOnly

\* The rest of the round: deserialize, run the processor, log, loop.
ProcessJob(w) ==
    /\ queue.workers[w].pc = "holding"
    /\ LET job_data_str == queue.workers[w].job[1]
           id == job_data_str[2]
           parsed == job_from_str(job_data_str)
           outcome == IF IsSome(parsed.err) THEN "undeserializable"
                      ELSE IF parsed.ret.kind = "failing" THEN "error"
                      ELSE "finished"
       IN  queue' = [queue EXCEPT
                        !.workers[w] = [pc |-> "idle", job |-> None],
                        !.outcome[id] = outcome,
                        !.runs[id] = IF IsSome(parsed.err) THEN @ ELSE @ + 1]
    /\ QueueOnly

WorkerWake(w) ==
    /\ queue.workers[w].pc = "sleeping"
    /\ queue' = [queue EXCEPT !.workers[w].pc = "idle"]
    /\ QueueOnly

\* disconnect: the queue's key is deleted.
DisconnectQueue ==
    /\ queue.list # <<>>
    /\ queue' = [queue EXCEPT !.list = <<>>]
    /\ QueueOnly

QueueNext ==
    \/ \E kind \in JobKinds : AddToQueue(kind)
    \/ PushForeign
    \/ \E w \in Workers, redis_ok \in BOOLEAN : Blpop(w, redis_ok)
    \/ \E w \in Workers : ProcessJob(w)
    \/ \E w \in Workers : WorkerWake(w)
    \/ DisconnectQueue

NoQueue ==
    [list |-> <<>>, next |-> 1, handed |-> <<>>,
     workers |-> [w \in Workers |-> [pc |-> "idle", job |-> None]],
     outcome |-> [id \in JobIds |-> "none"],
     runs |-> [id \in JobIds |-> 0]]
QueueIdle == queue = NoQueue

(***************************************************************************)
(* The Pusher API auth middleware (middleware.rs).  A query string is a    *)
(* sequence of key=value segments, a segment being well-formed or not; a   *)
(* body is the sequence of its frames.  The validator is the environment.  *)
(***************************************************************************)
MaxPairs == 2
QueryKeys == {"auth_key", "auth_signature", "body_md5"}
QueryValues == {"x", "y"}
Segments == [key : QueryKeys, value : QueryValues, well_formed : BOOLEAN]
QueryStrings == UNION {[1..k -> Segments] : k \in 0..MaxPairs}
Bodies == {<<>>, <<<<1>>>>, <<<<1, 2>>>>, <<<<1>>, <<2>>>>, <<<<2>>, <<1>>>>}
Validations == {"true", "false", "error"}

\* serde_urlencoded::from_str::<Vec<(String, String)>>: the pairs in the
\* order of the text, an error on a segment that cannot be decoded.
from_str_pairs(query_str) ==
    IF \E i \in 1..Len(query_str) : ~query_str[i].well_formed
    THEN Err("InvalidInput")
    ELSE Ok([i \in 1..Len(query_str) |-> <<query_str[i].key, query_str[i].value>>])

\* serde_urlencoded::from_str::<EventQuery>: fails on what the pairs fail
\* on, and when the fields of EventQuery cannot be filled.
from_str_event_query(query_str, fields_ok) ==
    IF IsSome(from_str_pairs(query_str).err) \/ ~fields_ok
    THEN Err("InvalidInput")
    ELSE Ok("EventQuery")

\* BTreeMap::insert over the pairs in order: a later value replaces an
\* earlier one of the same key.
RECURSIVE insert_all(_, _)
insert_all(params_map, pairs) ==
    IF pairs = <<>> THEN params_map
    ELSE LET key == Head(pairs)[1]
             value == Head(pairs)[2]
         IN  insert_all([k \in DOMAIN params_map \cup {key} |->
                             IF k = key THEN value ELSE params_map[k]],
                        Tail(pairs))

\* A slip: the signature itself stays among the signed parameters.
Mut_get_params_for_signature(query_str_option) ==
    IF ~IsSome(query_str_option) THEN Ok(<<>>)
    ELSE LET pairs == from_str_pairs(query_str_option[1])
         IN  IF IsSome(pairs.err) THEN pairs
             ELSE Ok(insert_all(<<>>, pairs.ret))
get_params_for_signature(query_str_option) ==
    IF ~IsSome(query_str_option) THEN Ok(<<>>)
    ELSE LET pairs == from_str_pairs(query_str_option[1])
         IN  IF IsSome(pairs.err) THEN pairs
             ELSE Ok(insert_all(<<>>,
                        SelectSeq(pairs.ret, LAMBDA p : p[1] # "auth_signature")))

\* body.collect().await.to_bytes(): the bytes of the frames, in order.
RECURSIVE to_bytes(_)
to_bytes(body) == IF body = <<>> THEN <<>> ELSE Head(body) \o to_bytes(Tail(body))
\* Body::from(bytes): a body of one frame.
BodyFrom(bytes) == <<bytes>>

Refused(e, validated) ==
    [next_body |-> None, next_run |-> FALSE, result |-> Err(e), validated |-> validated]

pusher_api_auth_middleware(http_request, fields_ok, collected_ok, validation) ==
    LET query_str_option == http_request.query
    IN  IF ~IsSome(query_str_option) THEN Refused("InvalidInput", None)
        ELSE IF IsSome(from_str_event_query(query_str_option[1], fields_ok).err)
        THEN Refused("InvalidInput", None)
        ELSE LET all_query_params_for_sig_map == get_params_for_signature(query_str_option)
             IN  IF IsSome(all_query_params_for_sig_map.err)
                 THEN Refused("InvalidInput", None)
                 ELSE IF ~collected_ok THEN Refused("InternalError", None)
                 ELSE LET body_bytes == to_bytes(http_request.body)
                          validated == Some([body |-> body_bytes,
                                             params |-> all_query_params_for_sig_map.ret])
                      IN  CASE validation = "true" ->
                                 [next_body |-> Some(BodyFrom(body_bytes)),
                                  next_run |-> TRUE, result |-> Ok("next"),
                                  validated |-> validated]
                            [] validation = "false" -> Refused("ApiAuthFailed", validated)
                            [] OTHER -> Refused("Validator", validated)

NoApi ==
    [http_request |-> [body |-> <<>>, query |-> None],
     out |-> Refused("none", None), pc |-> "idle", validation |-> "error"]

\* A request arrives.
ApiReceive(http_request) ==
    /\ api.pc = "idle"
    /\ api' = [api EXCEPT !.http_request = http_request, !.pc = "received"]
    /\ ApiOnly

\* The request goes through the middleware.
ApiRequest(fields_ok, collected_ok, validation) ==
    /\ api.pc = "received"
    /\ api' = [api EXCEPT
                  !.out = pusher_api_auth_middleware(api.http_request, fields_ok,
                                                     collected_ok, validation),
                  !.pc = "done",
                  !.validation = validation]
    /\ ApiOnly

\* The response is returned.
ApiRespond ==
    /\ api.pc = "done"
    /\ api' = NoApi
    /\ ApiOnly

ApiNext ==
    \/ \E query_str_option \in {None} \cup {Some(q) : q \in QueryStrings}, body \in Bodies :
          ApiReceive([body |-> body, query |-> query_str_option])
    \/ \E fields_ok \in BOOLEAN, collected_ok \in BOOLEAN, validation \in Validations :
          ApiRequest(fields_ok, collected_ok, validation)
    \/ ApiRespond

ApiIdle == api = NoApi

vars == <<namespace, announced, degraded, faults, last, signIn, signOut,
          published, wire, sent,
          now, conn, activity, auth, pings, answered, closes, gone, authRan,
          clock, pending, slot, inflight, returned, fan, batches,
          namespaces, signed_in, last_send, deliv, probe, timers, leave, limiter, queue, api>>

Init ==
    /\ IdxAt(IdxStart)
    /\ signIn = SignIdle
    /\ signOut = "unset"
    /\ SendIdle
    /\ TimeAt(FALSE)
    /\ ReqIdle
    /\ FanIdle
    /\ UserIdle
    /\ AckIdle
    /\ probe = NoProbe
    /\ TaskIdle
    /\ LeaveIdle
    /\ LimiterIdle
    /\ QueueIdle
    /\ ApiIdle
Next == IdxNext
Spec == Init /\ [][Next]_vars

InitSign ==
    /\ IdxAt(IdxStart)
    /\ signIn \in SignInputs
    /\ signOut = "unset"
    /\ SendIdle
    /\ TimeAt(FALSE)
    /\ ReqIdle
    /\ FanIdle
    /\ UserIdle
    /\ AckIdle
    /\ probe = NoProbe
    /\ TaskIdle
    /\ LeaveIdle
    /\ LimiterIdle
    /\ QueueIdle
    /\ ApiIdle
SpecSign == InitSign /\ [][SignNext]_vars

InitSend ==
    /\ \E subs \in SUBSET Sockets :
          IdxAt([IdxStart EXCEPT !.namespace = Subscribed(subs)])
    /\ signIn = SignIdle
    /\ signOut = "unset"
    /\ SendIdle
    /\ TimeAt(FALSE)
    /\ ReqIdle
    /\ FanIdle
    /\ UserIdle
    /\ AckIdle
    /\ probe = NoProbe
    /\ TaskIdle
    /\ LeaveIdle
    /\ LimiterIdle
    /\ QueueIdle
    /\ ApiIdle
SpecSend == InitSend /\ [][SendNext]_vars

InitTimeout ==
    /\ IdxAt(IdxStart)
    /\ signIn = SignIdle
    /\ signOut = "unset"
    /\ SendIdle
    /\ \E enable_user_authentication \in BOOLEAN : TimeAt(enable_user_authentication)
    /\ ReqIdle
    /\ FanIdle
    /\ UserIdle
    /\ AckIdle
    /\ probe = NoProbe
    /\ TaskIdle
    /\ LeaveIdle
    /\ LimiterIdle
    /\ QueueIdle
    /\ ApiIdle
SpecTimeout == InitTimeout /\ [][TimeNext]_vars

InitRequest ==
    /\ IdxAt(IdxStart)
    /\ signIn = SignIdle
    /\ signOut = "unset"
    /\ SendIdle
    /\ TimeAt(FALSE)
    /\ ReqIdle
    /\ FanIdle
    /\ UserIdle
    /\ AckIdle
    /\ probe = NoProbe
    /\ TaskIdle
    /\ LeaveIdle
    /\ LimiterIdle
    /\ QueueIdle
    /\ ApiIdle
SpecRequest == InitRequest /\ [][ReqNext]_vars

InitFan ==
    /\ IdxAt(IdxStart)
    /\ signIn = SignIdle
    /\ signOut = "unset"
    /\ SendIdle
    /\ TimeAt(FALSE)
    /\ ReqIdle
    /\ FanIdle
    /\ UserIdle
    /\ AckIdle
    /\ probe = NoProbe
    /\ TaskIdle
    /\ LeaveIdle
    /\ LimiterIdle
    /\ QueueIdle
    /\ ApiIdle
SpecFan == InitFan /\ [][FanNext]_vars

InitUser ==
    /\ IdxAt(IdxStart)
    /\ signIn = SignIdle
    /\ signOut = "unset"
    /\ SendIdle
    /\ TimeAt(FALSE)
    /\ ReqIdle
    /\ FanIdle
    /\ UserIdle
    /\ AckIdle
    /\ probe = NoProbe
    /\ TaskIdle
    /\ LeaveIdle
    /\ LimiterIdle
    /\ QueueIdle
    /\ ApiIdle
SpecUser == InitUser /\ [][UserNext]_vars

InitAck ==
    /\ IdxAt(IdxStart)
    /\ signIn = SignIdle
    /\ signOut = "unset"
    /\ SendIdle
    /\ TimeAt(FALSE)
    /\ ReqIdle
    /\ FanIdle
    /\ UserIdle
    /\ AckIdle
    /\ probe = NoProbe
    /\ TaskIdle
    /\ LeaveIdle
    /\ LimiterIdle
    /\ QueueIdle
    /\ ApiIdle
SpecAck == InitAck /\ [][AckNext]_vars

InitConfig ==
    /\ IdxAt(IdxStart)
    /\ signIn = SignIdle
    /\ signOut = "unset"
    /\ SendIdle
    /\ TimeAt(FALSE)
    /\ ReqIdle
    /\ FanIdle
    /\ UserIdle
    /\ AckIdle
    /\ probe = NoConfig
    /\ TaskIdle
    /\ LeaveIdle
    /\ LimiterIdle
    /\ QueueIdle
    /\ ApiIdle
SpecConfig == InitConfig /\ [][ConfigNext]_vars

InitProtocol ==
    /\ IdxAt(IdxStart)
    /\ signIn = SignIdle
    /\ signOut = "unset"
    /\ SendIdle
    /\ TimeAt(FALSE)
    /\ ReqIdle
    /\ FanIdle
    /\ UserIdle
    /\ AckIdle
    /\ probe = NoMessage
    /\ TaskIdle
    /\ LeaveIdle
    /\ LimiterIdle
    /\ QueueIdle
    /\ ApiIdle
SpecProtocol == InitProtocol /\ [][ProtocolNext]_vars

InitTask ==
    /\ IdxAt(IdxStart)
    /\ signIn = SignIdle
    /\ signOut = "unset"
    /\ SendIdle
    /\ TimeAt(FALSE)
    /\ ReqIdle
    /\ FanIdle
    /\ UserIdle
    /\ AckIdle
    /\ probe = NoProbe
    /\ \E abort_on_drop \in BOOLEAN : timers = NoTimers(abort_on_drop)
    /\ LeaveIdle
    /\ LimiterIdle
    /\ QueueIdle
    /\ ApiIdle
SpecTask == InitTask /\ [][TaskNext]_vars

InitLeave ==
    /\ IdxAt(IdxStart)
    /\ signIn = SignIdle
    /\ signOut = "unset"
    /\ SendIdle
    /\ TimeAt(FALSE)
    /\ ReqIdle
    /\ FanIdle
    /\ UserIdle
    /\ AckIdle
    /\ probe = NoProbe
    /\ TaskIdle
    /\ LeaveIdle
    /\ LimiterIdle
    /\ QueueIdle
    /\ ApiIdle
SpecLeave == InitLeave /\ [][LeaveNext]_vars

InitLimiter ==
    /\ IdxAt(IdxStart)
    /\ signIn = SignIdle
    /\ signOut = "unset"
    /\ SendIdle
    /\ TimeAt(FALSE)
    /\ ReqIdle
    /\ FanIdle
    /\ UserIdle
    /\ AckIdle
    /\ probe = NoProbe
    /\ TaskIdle
    /\ LeaveIdle
    /\ LimiterIdle
    /\ QueueIdle
    /\ ApiIdle
SpecLimiter == InitLimiter /\ [][LimiterNext]_vars

InitQueue ==
    /\ IdxAt(IdxStart)
    /\ signIn = SignIdle
    /\ signOut = "unset"
    /\ SendIdle
    /\ TimeAt(FALSE)
    /\ ReqIdle
    /\ FanIdle
    /\ UserIdle
    /\ AckIdle
    /\ probe = NoProbe
    /\ TaskIdle
    /\ LeaveIdle
    /\ LimiterIdle
    /\ QueueIdle
    /\ ApiIdle
SpecQueue == InitQueue /\ [][QueueNext]_vars

InitApi ==
    /\ IdxAt(IdxStart)
    /\ signIn = SignIdle
    /\ signOut = "unset"
    /\ SendIdle
    /\ TimeAt(FALSE)
    /\ ReqIdle
    /\ FanIdle
    /\ UserIdle
    /\ AckIdle
    /\ probe = NoProbe
    /\ TaskIdle
    /\ LeaveIdle
    /\ LimiterIdle
    /\ QueueIdle
    /\ ApiIdle
SpecApi == InitApi /\ [][ApiNext]_vars

(***************************************************************************)
(* The channel index.                                                      *)
(***************************************************************************)
\* C1: on every node, after any sequence of subscribe, unsubscribe,
\* batch_unsubscribe and disconnect, a socket is in channels[c] if and only
\* if c is in socket_channels of the socket.
IndexAgrees ==
    \A n \in Nodes, s \in Sockets, c \in Channels :
        (s \in ChannelSockets(namespace[n], c))
            <=> (c \in namespace[n].socket_channels[s])

\* An unsubscribe has removed the entry of a channel it left empty while a
\* socket of the node is still subscribed to another channel.
IndexAgreesWitness ==
    /\ last.op = "unsubscribe"
    /\ last.result = "ok"
    /\ \E n \in Nodes, c, d \in Channels :
          /\ c \notin DOMAIN namespace[n].channels
          /\ ChannelSockets(namespace[n], d) # {}

\* The <<channel, user_id>> of the presence members of all the nodes.
PresenceUsers ==
    {<<m[1], m[3]>> : m \in UNION {namespace[n].presence_members : n \in Nodes}}

RefusedFrame(s, channel, frame) ==
    LET channel_data == RequestChannelData(frame.data)
    IN  \/ /\ requires_authentication(get_channel_type(channel))
           /\ frame.auth # Some(ClientAuth(s, channel, channel_data))
        \/ /\ get_channel_type(channel) = "Presence"
           /\ \/ ~IsSome(channel_data)
              \/ Unwrap(channel_data) \notin {UserText(u) : u \in Users}

\* C4: a subscribe that fails for its signature or for its presence
\* channel_data returns an error, adds the socket to no channel, leaves the
\* index as it is and does not close the socket: from every state, for every
\* connected socket and every such frame.
RefusedSubscribeChangesNothing ==
    \A s \in Sockets, channel \in Channels :
      \A frame \in SubscribeFrames(s, channel), net \in NetInputs(NodeOf(s)) :
        LET request == [channel |-> channel, auth |-> frame.auth,
                        channel_data |-> RequestChannelData(frame.data)]
            verified == verify_channel_authentication(AppConfig, s, request)
            r == subscribe(namespace, NodeOf(s), s, frame.data, channel,
                           verified.ret, net)
        IN  (s \in namespace[NodeOf(s)].sockets /\ RefusedFrame(s, channel, frame))
                => \/ IsSome(verified.err)
                   \/ IsSome(r.err) /\ r.nss = namespace

\* A subscribe to the presence channel was refused while another socket
\* is subscribed to it.
RefusedSubscribeWitness ==
    /\ last.op = "subscribe"
    /\ last.result \in {"Auth", "Channel"}
    /\ \E n \in Nodes : ChannelSockets(namespace[n], "presence-room") # {}

(***************************************************************************)
(* The signature of a subscription.                                        *)
(***************************************************************************)
\* The string C5 gives for a subscription.
SignedString(socket_id_str, channel, channel_data) ==
    IF StartsWith(channel, "presence-") /\ channel_data # ""
    THEN socket_id_str \o ":" \o channel \o ":" \o channel_data
    ELSE socket_id_str \o ":" \o channel

\* C5: whichever form the message data has, the string signed is
\* socket_id:channel:channel_data exactly when the channel starts with
\* presence- and channel_data is non-empty, socket_id:channel otherwise, and
\* signature_is_valid accepts a signature iff it is key:HMAC(secret, string).
SignedStringAsStated ==
    LET stated == SignedString(signIn.socket_id, signIn.channel,
                               unwrap_or(signIn.channel_data, ""))
        message == SignMessage(signIn.form, signIn.channel, signIn.channel_data)
    IN  /\ get_data_to_sign_for_signature(signIn.socket_id, message) = stated
        /\ signOut # "unset" =>
              (signOut = "valid"
                 <=> signIn.signature
                       = AppConfig.key \o ":" \o TokenSign(AppConfig.secret, stated))

\* A signature over socket_id:channel:channel_data was accepted for a
\* presence subscription sent as a JSON string.
SignedStringWitness ==
    /\ signOut = "valid"
    /\ signIn.form = "String"
    /\ signIn.channel = "presence-room"
    /\ signIn.channel_data = Some("cd1")

(***************************************************************************)
(* Fan-out over the cluster.                                               *)
(***************************************************************************)
\* The transport has yet to hand the broadcast of message m to node n.
BroadcastPending(m, n) ==
    \E d \in wire : d.to = n /\ d.broadcast.message = message_to_string(m)

\* C2: a message published on a channel by send on node N1, whose broadcast
\* the transport hands once to every node, is sent exactly once to every
\* subscriber of the channel but the excluded one: to the subscribers of N1
\* by the local fan-out alone (the count is 1 from the send on and stays 1
\* when N1 gets its own broadcast), to those of a peer by the replay alone
\* (0 until the peer gets the broadcast, 1 after).
PublishedOnce ==
    \A m \in 1..Len(published) :
        (published[m].ok /\ ~StartsWith(published[m].channel, "#server-to-user-")) =>
            \A n \in Nodes :
              \A s \in ChannelSockets(namespace[n], published[m].channel) :
                published[m].except # Some(SocketIdStr(s)) =>
                    sent[s][m] = IF n = published[m].node THEN 1
                                 ELSE IF BroadcastPending(m, n) THEN 0 ELSE 1

\* A message published on node 1 has reached every node, with a subscriber
\* on each node.
PublishedOnceWitness ==
    /\ Len(published) >= 1
    /\ published[1].ok
    /\ published[1].node = 1
    /\ published[1].channel = "chat"
    /\ published[1].except = None
    /\ \A n \in Nodes : ~BroadcastPending(1, n)
    /\ \A n \in Nodes : ChannelSockets(namespace[n], "chat") # {}

\* C6: the socket named by except in send is never sent the message, on the
\* publishing node or, through except_socket_id, on a peer.
ExceptNeverSent ==
    \A m \in 1..Len(published), s \in Sockets :
        published[m].except = Some(SocketIdStr(s)) => sent[s][m] = 0

\* A message that excludes a subscriber on node 2 was published on node 1
\* and replayed on node 2, and was sent to a subscriber of node 1.
ExceptNeverSentWitness ==
    /\ Len(published) >= 1
    /\ published[1].ok
    /\ published[1].node = 1
    /\ published[1].channel = "chat"
    /\ published[1].except = Some(SocketIdStr(2))
    /\ 2 \in ChannelSockets(namespace[2], "chat")
    /\ ~BroadcastPending(1, 2)
    /\ sent[1][1] = 1

(***************************************************************************)
(* The timeouts of a connection.                                           *)
(***************************************************************************)
\* C7: after a pusher:ping with no client frame within PONG_TIMEOUT, the
\* socket is closed with 4201 at the end of the window: a connection is not
\* in PingSent past the window, a ping that was written and not answered is
\* followed by the close PONG_TIMEOUT later (unless the socket was closed for
\* another reason or left the manager before), a 4201 close comes exactly
\* PONG_TIMEOUT after its ping, and an idle socket is first pinged at 5 and
\* first closed at 8.
PongWindowEndsInClose ==
    /\ (conn.open /\ conn.status.s = "PingSent")
          => now <= conn.status.t + PONG_TIMEOUT
    /\ \A g \in pings :
          (g.ok /\ now > g.at + PONG_TIMEOUT) =>
              \/ g.at \in answered
              \/ [code |-> 4201, at |-> g.at + PONG_TIMEOUT, ping |-> g.at] \in closes
              \/ \E c \in closes : c.code # 4201 /\ c.at <= g.at + PONG_TIMEOUT
              \/ gone # -1 /\ gone <= g.at + PONG_TIMEOUT
    /\ \A c \in closes : c.code = 4201 => c.at = c.ping + PONG_TIMEOUT
    /\ conn.last_activity = 0 =>
          /\ \A g \in pings : g.at = 5 \/ \E c \in closes : c.at < g.at
          /\ \A c \in closes :
                c.code = 4201 => c.at = 8 \/ \E d \in closes : d.at < c.at

\* The idle socket: pinged at 5, closed with 4201 at 8.
PongWindowWitness ==
    /\ conn.last_activity = 0
    /\ [code |-> 4201, at |-> 8, ping |-> 5] \in closes

\* C8: a client frame that arrives while the socket is in PingSent, before
\* the window ends, returns the status to Active, and the socket is not
\* closed with 4201 for that ping.
AnsweredPingNotClosed ==
    /\ conn.status.s = "PingSent" => conn.status.t \notin answered
    /\ \A c \in closes : c.code = 4201 => c.ping \notin answered

\* A ping was answered, its window has passed and the socket is open and
\* Active.
AnsweredPingWitness ==
    /\ \E p \in answered : now > p + PONG_TIMEOUT
    /\ conn.open
    /\ ~conn.closed
    /\ conn.status = Active

\* C9: the activity task pings only when at least activity_timeout has
\* passed since the last client frame, and the status it leaves is PingSent
\* with the time of the ping.
PingOnlyAfterInactivity ==
    \A g \in pings :
        /\ g.idle >= activity_timeout
        /\ g.status = PingSent(g.at)

\* A frame during the first sleep postponed the ping by the remaining time.
PingPostponedWitness ==
    \E g \in pings :
        /\ g.ok
        /\ g.at > activity_timeout
        /\ g.idle = activity_timeout

\* C10: when the auth timeout expires, the socket is closed with 4009 if and
\* only if the app requires user authentication and the socket has not
\* signed in; a socket that signed in before, or a socket of an app without
\* user authentication, is never closed by the auth timeout.
AuthTimeoutCloses ==
    /\ IsSome(authRan) =>
          /\ conn.enable_user_authentication
          /\ Unwrap(authRan).at = user_authentication_timeout
          /\ Unwrap(authRan).closed <=> (Unwrap(authRan).open /\ ~Unwrap(authRan).user)
          /\ Unwrap(authRan).closed
                <=> [code |-> 4009, at |-> user_authentication_timeout, ping |-> -1]
                        \in closes
    /\ \A c \in closes : c.code = 4009 => IsSome(authRan) /\ Unwrap(authRan).closed
    /\ (conn.enable_user_authentication /\ now > user_authentication_timeout)
          => (IsSome(authRan) \/ auth.pc = "aborted")
    /\ auth.pc = "aborted" => conn.user
    /\ ~conn.enable_user_authentication => ~IsSome(authRan)

\* The auth timeout expired on a socket that had not signed in and closed it
\* with 4009.
AuthTimeoutWitness ==
    /\ IsSome(authRan)
    /\ ~Unwrap(authRan).user
    /\ [code |-> 4009, at |-> user_authentication_timeout, ping |-> -1] \in closes

(***************************************************************************)
(* Cluster queries.                                                        *)
(***************************************************************************)
\* The count a node holds for a count operation.
NodeCount(op) ==
    [n \in ClusterNodes |->
        CASE op = "get_channel_socket_count" -> Cardinality(ClusterState[n].channel_sockets)
          [] op = "get_sockets_count" -> ClusterState[n].sockets_count
          [] OTHER -> ClusterState[n].user_connections]

\* C11: send_request waits until the responses recorded reach expected or
\* until request_timeout_ms has passed since it began to wait, whichever
\* comes first: it never waits past the timeout, a response that leaves the
\* count below expected does not restart it.
WaitEndsAtQuorumOrTimeout ==
    /\ pending.pc = "waiting" => clock <= pending.began + request_timeout_ms
    /\ (IsSome(returned) /\ Unwrap(returned).waited) =>
          /\ Unwrap(returned).at <= Unwrap(returned).began + request_timeout_ms
          /\ Unwrap(returned).timed_out =>
                Unwrap(returned).at = Unwrap(returned).began + request_timeout_ms
          /\ ~Unwrap(returned).timed_out =>
                Cardinality(Unwrap(returned).received) >= Unwrap(returned).expected

\* C12: when the timeout expires before all expected responses have
\* arrived, send_request returns Ok with the aggregate of the responses that
\* arrived: for ChannelSocketsCount on three nodes where peer 2 answered 4 and
\* peer 3 did not answer, get_channel_socket_count is the local count plus 4.
TimeoutReturnsPartial ==
    (IsSome(returned) /\ Unwrap(returned).timed_out) =>
        /\ Unwrap(returned).response.err = None
        /\ Unwrap(returned).received = Unwrap(returned).arrived
        /\ Unwrap(returned).response.ret =
              aggregate_responses(
                  [i \in 1..Cardinality(Unwrap(returned).arrived) |->
                      process_request(
                          CHOOSE p \in Unwrap(returned).arrived :
                              Cardinality({o \in Unwrap(returned).arrived : o < p}) = i - 1,
                          RequestType(Unwrap(returned).op),
                          Unwrap(returned).socket_id)])
        /\ (/\ Unwrap(returned).op = "get_channel_socket_count"
            /\ Unwrap(returned).node_count.ret = 3
            /\ Unwrap(returned).arrived = {2})
              => Unwrap(returned).result = Ok(local_query("get_channel_socket_count", "") + 4)

\* The timeout expired with the answer of peer 2 alone, and the channel
\* socket count is 1 + 4.
TimeoutReturnsPartialWitness ==
    /\ IsSome(returned)
    /\ Unwrap(returned).timed_out
    /\ Unwrap(returned).op = "get_channel_socket_count"
    /\ Unwrap(returned).arrived = {2}
    /\ Unwrap(returned).result = Ok(5)

\* C13: get_channel_socket_count, get_sockets_count and
\* count_user_connections_in_channel return the local count plus the sum of
\* the counts of the peers whose responses were received, each once.
CountsSumLocalAndPeers ==
    (IsSome(returned) /\ Unwrap(returned).op \in CountOps) =>
        Unwrap(returned).result =
            Ok(NodeCount(Unwrap(returned).op)[LocalNode]
               + SumOver(Unwrap(returned).arrived, NodeCount(Unwrap(returned).op)))

\* Both peers answered a get_sockets_count: 2 + 5 + 3.
CountsSumWitness ==
    /\ IsSome(returned)
    /\ Unwrap(returned).op = "get_sockets_count"
    /\ Unwrap(returned).arrived = ClusterPeers
    /\ Unwrap(returned).result = Ok(10)

\* C14: get_channel_members returns the union over user_id of the local
\* members and the members the peers reported, and the entry of a user_id
\* that is present locally is the local one.
MembersLocalWins ==
    (/\ IsSome(returned)
     /\ Unwrap(returned).op = "get_channel_members"
     /\ Unwrap(returned).result.err = None) =>
        /\ DOMAIN Unwrap(returned).result.ret =
              DOMAIN ClusterState[LocalNode].members
                \cup UNION {DOMAIN ClusterState[p].members : p \in Unwrap(returned).arrived}
        /\ \A u \in DOMAIN ClusterState[LocalNode].members :
              Unwrap(returned).result.ret[u] = ClusterState[LocalNode].members[u]

\* C15: when the transport fails while the node count is read or the
\* request is published, every query operation returns the local result.
TransportFailureDegrades ==
    (/\ IsSome(returned)
     /\ Unwrap(returned).called
     /\ (IsSome(Unwrap(returned).node_count.err) \/ ~Unwrap(returned).publish_ok)) =>
        /\ Unwrap(returned).result.err = None
        /\ Unwrap(returned).result.ret
              = local_query(Unwrap(returned).op, Unwrap(returned).socket_id)

\* C16: when get_node_count reports a single node, send_request returns at
\* once, without waiting, the empty ResponseBody, and the query operation
\* returns the local result.
SingleNodeReturnsEmpty ==
    (/\ IsSome(returned)
     /\ Unwrap(returned).called
     /\ Unwrap(returned).node_count = [err |-> None, ret |-> 1]) =>
        /\ ~Unwrap(returned).waited
        /\ Unwrap(returned).at = Unwrap(returned).began
        /\ Unwrap(returned).response.err = None
        /\ Unwrap(returned).response.ret = EmptyResponse
        /\ Unwrap(returned).result.err = None
        /\ Unwrap(returned).result.ret
              = local_query(Unwrap(returned).op, Unwrap(returned).socket_id)

(***************************************************************************)
(* The order of a horizontal send and the fan-out                          *)
(***************************************************************************)
\* The sockets of the snapshot that have had a send attempt, in the order
\* of the batches.
RECURSIVE Attempted(_)
Attempted(i) ==
    IF i = 0 THEN <<>>
    ELSE Attempted(i - 1) \o [j \in 1..Len(batches[i].results) |-> batches[i].results[j].socket]

\* C17: in a horizontal send the local fan-out has been attempted and has
\* completed before the BroadcastMessage is published: when the send has
\* reached the publication, and whatever the broker then answers, every
\* batch of the local fan-out has ended and has tried all its sockets.
LocalBeforePublish ==
    fan.pc \in {"publishing", "done"} =>
        /\ \A i \in 1..Len(batches) :
              /\ batches[i].state = "done"
              /\ Len(batches[i].results) = batches[i].hi - batches[i].lo + 1
        /\ Len(batches) > 0
        /\ batches[Len(batches)].hi = fan.socket_count

\* The broker failed, and the local subscribers had been served before.
LocalBeforePublishWitness ==
    /\ fan.pc = "done"
    /\ fan.publish = "failed"
    /\ fan.socket_count = 201
    /\ \A i \in 1..Len(batches) : batches[i].state = "done"

\* C18: a send that fails for one target socket does not abort the
\* fan-out: once LocalAdapter::send has returned, every socket of the
\* target snapshot has had exactly one send attempt, the sends that failed
\* are those of the refusing sockets, and send has returned Ok.
FailedSendDoesNotAbort ==
    fan.local_result # "none" =>
        /\ fan.local_result = "Ok"
        /\ Attempted(Len(batches)) = [s \in 1..fan.socket_count |-> s]
        /\ \A i \in 1..Len(batches) : \A j \in 1..Len(batches[i].results) :
              batches[i].results[j].ok = (batches[i].results[j].socket \notin fan.failing)

\* The first send of a batch failed, and the sockets after it were tried.
FailedSendDoesNotAbortWitness ==
    /\ fan.local_result = "Ok"
    /\ fan.socket_count = 101
    /\ fan.failing = {1, 51}
    /\ \E j \in 1..Len(batches[1].results) :
          /\ batches[1].results[j].socket = 50
          /\ batches[1].results[j].ok

\* The caps the configuration can set: cpus x multiplier.
Cpus == {1, 2}
Multipliers == {1}

\* C20: the local socket sends in flight never exceed the cap
\* cpus x multiplier, whatever the number and the sizes of the fan-outs.
InFlightWithinCap ==
    \A cpus \in Cpus, multiplier \in Multipliers : InFlight <= cpus * multiplier

\* The targets of the last send are the sockets indexed when it was made.
SentToIndexed ==
        last_send.targets =
            IF StartsWith(last_send.channel, "#server-to-user-")
            THEN {s \in Sockets :
                    /\ AppOf(s).id = last_send.app_id
                    /\ signed_in[s] # ""
                    /\ UserChannel(signed_in[s]) = last_send.channel
                    /\ last_send.except # Some(SocketIdStr(s))}
            ELSE {s \in namespaces[last_send.app_id].channels[last_send.channel] :
                    last_send.except # Some(SocketIdStr(s))}

\* C19: a send on #server-to-user-<uid> for an app targets exactly the
\* sockets add_user indexed under uid for that app, less the excluded one,
\* and no channel subscriber; a send on another channel targets the
\* subscribers of the channel in that app, less the excluded one.
UserChannelTargets ==
    [][last_send' # last_send => SentToIndexed']_vars

(***************************************************************************)
(* The PendingRequest of a cluster query                                   *)
(***************************************************************************)
\* C27: every PendingRequest that send_request inserts has been removed by
\* the time send_request returns, on every return path.
PendingRemovedOnReturn ==
    IsSome(returned) => slot = None

\* C29: the responses of a PendingRequest are at most node_count - 1, the
\* expected count computed when the request was issued.
ResponsesWithinExpected ==
    IsSome(slot) => Len(Unwrap(slot)) <= pending.expected

BatchSizeAtLeastOne ==
    fan.pc # "idle" =>
        /\ batching(fan.socket_count).batch_size >= 1
        /\ fan.pc # "panicked"

\* C28: the lock around the HorizontalAdapter is not held while the local
\* fan-out delivers the message to sockets.
LockFreeDuringFanOut ==
    InFlight > 0 => ~horizontal_locked

(***************************************************************************)
(* The channel entries                                                     *)
(***************************************************************************)
\* C22: a channel entry exists exactly while at least one socket is
\* subscribed to the channel: unsubscribe and batch_unsubscribe remove the
\* entry of a channel left without any socket and never the entry of a
\* channel that has a subscribed socket.  Read for the cluster: a node has
\* an entry for a channel only while some socket of some node is subscribed,
\* and it has one for every channel its own sockets are subscribed to.
ChannelEntryWhileSubscribed ==
    \A n \in Nodes :
        /\ \A c \in DOMAIN namespace[n].channels :
              \E p \in Nodes : ChannelSockets(namespace[p], c) # {}
        /\ \A s \in SocketsOf(n) : \A c \in namespace[n].socket_channels[s] :
              c \in DOMAIN namespace[n].channels

\* C23: add_to_channel returns true if and only if the socket was not
\* already in the channel; a subscribe by a socket that is already
\* subscribed leaves the socket set of the channel as it is and returns a
\* JoinResponse without member, so that no member_added is emitted.
ResubscribeChangesNothing ==
    \A s \in Sockets, channel \in Channels :
        LET n == NodeOf(s)
            already == s \in ChannelSockets(namespace[n], channel)
        IN  /\ add_to_channel(namespace, n, channel, s).ret = ~already
            /\ (already /\ s \in namespace[n].sockets) =>
                  \A frame \in SubscribeFrames(s, channel), net \in NetInputs(n) :
                     LET verified == verify_channel_authentication(AppConfig, s,
                                        [channel |-> channel, auth |-> frame.auth,
                                         channel_data |-> RequestChannelData(frame.data)])
                         r == subscribe(namespace, n, s, frame.data, channel,
                                        verified.ret, net)
                     IN  ~IsSome(verified.err) =>
                           /\ ChannelSockets(r.nss[n], channel)
                                 = ChannelSockets(namespace[n], channel)
                           /\ r.response.member = None
                           /\ Joined(namespace, r, n, s, channel, net).ev = NoEvent

\* The only connected socket, a member of the presence channel, has
\* subscribed to it again: the cluster answered every query, and no
\* member_added was emitted.
ResubscribeWitness ==
    /\ last = Observed("subscribe", "ok", NoEvent)
    /\ faults = 0
    /\ namespace[1].sockets = {1}
    /\ namespace[2].sockets = {}
    /\ namespace[1].socket_channels[1] = {"presence-room"}
    /\ <<"presence-room", "u1">> \in announced

(***************************************************************************)
(* The acknowledgement of a subscribe                                      *)
(***************************************************************************)
\* C21: on the publishing node the acknowledgement of a subscribe is sent
\* to the subscribing socket before any event published on the channel is
\* delivered to it: in the frames queued for a socket an event comes after
\* an acknowledgement.
AckBeforeEvents ==
    \A s \in Sockets : \A i \in 1..Len(deliv.outbox[s]) :
        deliv.outbox[s][i] # AckFrame =>
            \E j \in 1..(i - 1) : deliv.outbox[s][j] = AckFrame

(***************************************************************************)
(* WorkerThreadsConfig                                                     *)
(***************************************************************************)
\* C25: deserializing the serialization of a WorkerThreadsConfig gives the
\* value back, for Auto and for every Fixed(n) with n > 0; no input
\* deserializes to Fixed(0), 0 and "0" being rejected; so a configuration
\* got by deserialization resolves to at least one worker thread: n for
\* Fixed(n), between 1 and 4 for Auto.
WorkerThreadsRoundTrip ==
    /\ (probe.fn = "roundtrip") =>
          /\ probe.out.ok
          /\ serialize(probe.out.cfg) = probe.json
          /\ probe.out.cfg \in {Auto} \cup {Fixed(n) : n \in 1..MaxThreads}
    /\ (probe.fn # "none" /\ probe.out.ok /\ probe.out.cfg.tag = "Fixed") =>
          probe.out.cfg.n > 0
    /\ (probe.fn = "deserialize" /\ probe.json \in {JsonU64(0), JsonStr("0")}) =>
          ~probe.out.ok
    /\ (probe.fn = "resolve") =>
          /\ probe.threads >= 1
          /\ (probe.out.cfg.tag = "Fixed") => (probe.threads = probe.out.cfg.n)
          /\ (probe.out.cfg.tag = "Auto") => (probe.threads \in 1..4)

\* "AUTO" was deserialized to Auto and resolved to 4 threads on 20 cpus.
WorkerThreadsWitness ==
    /\ probe.fn = "resolve"
    /\ probe.json = JsonStr("AUTO")
    /\ probe.out.cfg = Auto
    /\ probe.cpu_count = 20
    /\ probe.threads = 4

(***************************************************************************)
(* The data field of the server's messages                                 *)
(***************************************************************************)
\* The shape the protocol gives the data field of an event: none for
\* pusher:ping and pusher:pong, the object {code, message} for pusher:error,
\* the object {user_data} for pusher:signin_success, and for any other event
\* that has data a string that holds a JSON object.
ProtocolShape(event, data) ==
    CASE event \in {"pusher:ping", "pusher:pong"} -> data = DataAbsent
      [] event = "pusher:error" ->
            data.t = "object" /\ Keys(data.obj) = {"code", "message"}
      [] event = "pusher:signin_success" ->
            data.t = "object" /\ Keys(data.obj) = {"user_data"}
      [] OTHER ->
            (data.t # "absent") =>
               /\ data.t = "string"
               /\ SubSeq(data.s, 1, 1) = "{"
               /\ SubSeq(data.s, Len(data.s), Len(data.s)) = "}"

\* C24, as stated: every message the server builds is serialized with the
\* data field in the shape the protocol fixes for its event: absent for
\* pusher:ping and pusher:pong, an inline object for pusher:error and
\* pusher:signin_success, a JSON-encoded string for every other event.
DataShapeAsStated ==
    (probe.fn # "none") => ProtocolShape(probe.json.event, probe.json.data)

\* C24, amended: the same for every event of the reference protocol, while
\* the watchlist event "online", an extension of the protocol, carries the
\* inline object {user_ids}; pusher:signin_success never carries the auth
\* signature.
DataShapeByType ==
    (probe.fn # "none") =>
       IF probe.json.event = "online"
       THEN /\ probe.json.data.t = "object"
            /\ Keys(probe.json.data.obj) = {"user_ids"}
       ELSE ProtocolShape(probe.json.event, probe.json.data)

\* A watchlist event for two users was serialized with an inline object.
DataShapeWitness ==
    /\ probe.fn = "watchlist_online_event"
    /\ probe.json.event = "online"
    /\ probe.json.channel = None
    /\ probe.json.data = DataObject(<<<<"user_ids", "[\"u1\",\"u2\"]">>>>)

(***************************************************************************)
(* The timeout tasks and the end of a connection                           *)
(***************************************************************************)
\* C31: once the connection has left the connection manager, no step of the
\* activity task or of the auth task sends a ping or issues a close: a
\* timeout that fires after the removal has no effect.
NoEffectAfterRemoval ==
    [][(~conn.open) => (pings' = pings /\ closes' = closes /\ conn' = conn)]_vars

\* Both tasks woke after the connection was removed and did nothing.
NoEffectAfterRemovalWitness ==
    /\ ~conn.open
    /\ gone >= 0
    /\ gone < now
    /\ activity = Done
    /\ IsSome(authRan)
    /\ ~authRan[1].open
    /\ authRan[1].at > gone
    /\ pings = {}
    /\ closes = {}

\* C35: the status of a socket that was closed with 4201 or 4009 stays as it
\* is: no step puts it back to Active or PingSent, and no further
\* pusher:ping is sent to the socket.
ClosingIsTerminal ==
    [][(conn.status.s = "Closed") =>
          (conn'.status.s = "Closed" /\ pings' = pings)]_vars

\* C36: at any time at most one activity-timeout task is running for a
\* socket, also when two calls of set_activity_timeout overlap; and a task
\* whose handle could not be stored, the connection being gone, sends no
\* ping.
AtMostOneActivityTask ==
    /\ [](timers.open => Cardinality(Running) <= 1)
    /\ [][\A i \in timers.unstored :
             (i \in timers'.pinged) => (i \in timers.pinged)]_vars

(***************************************************************************)
(* batch_unsubscribe                                                       *)
(***************************************************************************)
\* C32: in every state of the index, on every node, for every batch and
\* every answer of the cluster, batch_unsubscribe returns one result per
\* operation, in the order of the operations, and leaves the index that the
\* same unsubscribes leave when they are done one by one in that order; an
\* operation that fails has its error as result and the others are done.
BatchAsOneByOne ==
    \A n \in Nodes : \A operations \in BatchOperations(n) :
       \A nets \in [DOMAIN operations -> NetInputs(n)] :
          \E b \in {batch_unsubscribe(namespace, n, operations, nets)} :
          \E o \in {one_by_one(namespace, n, operations, nets, <<>>)} :
             /\ b.nss = o.nss
             /\ b.results = o.results
             /\ Len(b.results) = Len(operations)
             /\ \A i \in DOMAIN operations : b.results[i][1] = operations[i][2]

\* Socket 1, in both channels and alone in them, is taken out of both by one
\* batch on its node: the first operation fails on the cluster's answer,
\* the second is done and its channel entry removed.
BatchWitness ==
    /\ namespace[1].socket_channels[1] = Channels
    /\ \A c \in Channels : \A n \in Nodes : ChannelSockets(namespace[n], c) \subseteq {1}
    /\ LET operations == <<<<1, "chat">>, <<1, "presence-room">>>>
           nets == <<[fail |-> TRUE, R |-> {}], [fail |-> FALSE, R |-> Peers(1)]>>
           b == batch_unsubscribe(namespace, 1, operations, nets)
       IN  /\ b.results[1] = <<"chat", Err("Transport")>>
           /\ b.results[2] = <<"presence-room", Ok(<<TRUE, 0>>)>>
           /\ b.nss[1].socket_channels[1] = {}
           /\ "presence-room" \notin DOMAIN b.nss[1].channels
           /\ b.nss = one_by_one(namespace, 1, operations, nets, <<>>).nss

(***************************************************************************)
(* The member of a LeaveResponse                                           *)
(***************************************************************************)
\* C33: when unsubscribe has removed a socket from a presence channel, the
\* member of its LeaveResponse is the member read before the removal and
\* carries the user_id the socket had in the channel, whatever sockets
\* joined or left the channel between the read and the removal.
LeaveNamesDeparted ==
    (IsSome(leave.response) /\ leave.response[1].left) =>
        /\ leave.departed # ""
        /\ leave.response[1].member = Some(leave.departed)

\* Socket 1 left as "u1" while two other sockets changed the channel
\* between the read and the removal, and another socket of "u1" stays.
LeaveNamesDepartedWitness ==
    /\ IsSome(leave.response)
    /\ leave.response[1] = create_leave_response(TRUE, 1, Some("u1"))
    /\ leave.between >= 2
    /\ leave.pc = "idle"
    /\ "u1" \in ChannelUsers

(***************************************************************************)
(* A node and its own request                                              *)
(***************************************************************************)
\* C34: the node that sent a request publishes no response to it when the
\* request comes back on the request topic, and no response carrying the
\* node's own id is recorded or aggregated: the node's own state enters
\* the result through the local part only.
OwnStateOnce ==
    /\ pending.own # "answered"
    /\ IsSome(slot) =>
          \A i \in 1..Len(Unwrap(slot)) : Unwrap(slot)[i].node_id # LocalNode
    /\ IsSome(returned) => LocalNode \notin returned[1].received

\* The node skipped its own request and the query aggregated the responses
\* of both peers.
OwnStateOnceWitness ==
    /\ pending.own = "skipped"
    /\ IsSome(returned)
    /\ returned[1].received = ClusterPeers
    /\ returned[1].op = "get_channel_socket_count"
    /\ returned[1].result = Ok(7)

(***************************************************************************)
(* The Redis rate limiter                                                  *)
(***************************************************************************)
\* C37: the calls that return allowed = true with a timestamp inside one
\* window of window_secs are at most max_requests, and a call made when
\* max_requests allowed calls are already in the window returns
\* allowed = false and records nothing.
WindowLimit ==
    /\ \A t \in Seconds : AllowedIn(limiter.granted, t) <= max_requests
    /\ IsSome(limiter.ret) =>
          LET ret == limiter.ret[1]
          IN  (ret.before >= max_requests) => (~ret.allowed /\ ~ret.recorded)

\* C38: a call leaves no entry older than the window in the sorted set, and
\* a key with fewer than max_requests allowed calls inside the window is
\* allowed, whatever was granted before the window and however often the
\* key was checked in between.
OldEntriesExpire ==
    IsSome(limiter.ret) =>
        LET ret == limiter.ret[1]
        IN  /\ (limiter.now = ret.at) =>
                   (\A e \in limiter.zset : e.score > ret.at - window_secs)
            /\ (ret.before < max_requests) => ret.allowed

(***************************************************************************)
(* The Redis queue manager                                                 *)
(***************************************************************************)
\* C39: a job is handed to at most one worker and jobs are handed out in
\* the order in which they were added; a job that a worker holds or has
\* processed is not in the list, whatever the outcome, and the processor
\* runs at most once for a job.
HandedOnceInOrder ==
    /\ \A i, j \in 1..Len(queue.handed) :
          (i < j) => (queue.handed[i].id < queue.handed[j].id)
    /\ \A i \in 1..Len(queue.handed) :
          \A k \in 1..Len(queue.list) : ListIds(queue.list)[k] # queue.handed[i].id
    /\ \A id \in JobIds :
          /\ queue.runs[id] <= 1
          /\ (queue.outcome[id] # "none") =>
                 \E i \in 1..Len(queue.handed) : queue.handed[i].id = id

\* Three jobs went to two workers in the order they were added; the
\* processor failed on the first and the second could not be deserialized.
HandedOnceInOrderWitness ==
    /\ Len(queue.handed) = 3
    /\ queue.handed[1].worker # queue.handed[2].worker
    /\ queue.outcome = (1 :> "error" @@ 2 :> "undeserializable" @@ 3 :> "finished")
    /\ queue.list = <<>>

(***************************************************************************)
(* The Pusher API auth middleware                                          *)
(***************************************************************************)
\* C40: the next handler runs exactly when the validator was asked and
\* answered true, and then it is given the bytes of the body as they were
\* received; a request without a query string, with a query string that
\* cannot be parsed, or one the validator answered with false or with an
\* error is refused with an error; auth_signature is never among the
\* parameters handed to the validator.
NextOnlyWhenValid ==
    (api.pc = "done") =>
        LET out == api.out
            query == api.http_request.query
        IN  /\ out.next_run <=> (IsSome(out.validated) /\ api.validation = "true")
            /\ out.next_run =>
                  /\ IsSome(out.next_body)
                  /\ to_bytes(out.next_body[1]) = to_bytes(api.http_request.body)
                  /\ out.validated[1].body = to_bytes(api.http_request.body)
            /\ (\/ ~IsSome(query)
                \/ IsSome(from_str_pairs(query[1]).err)
                \/ api.validation # "true")
                  => (~out.next_run /\ IsSome(out.result.err))
            /\ IsSome(out.validated) =>
                  "auth_signature" \notin DOMAIN out.validated[1].params

\* A signed request with a body of two frames passed: the validator saw
\* auth_key alone and the handler got both bytes.
NextOnlyWhenValidWitness ==
    /\ api.pc = "done"
    /\ api.out.next_run
    /\ Len(api.http_request.body) = 2
    /\ to_bytes(api.out.next_body[1]) = <<1, 2>>
    /\ \E i \in 1..Len(api.http_request.query[1]) :
          api.http_request.query[1][i].key = "auth_signature"
    /\ DOMAIN api.out.validated[1].params = {"auth_key"}

=============================================================================
